---- MODULE Spec2Model ----
(***************************************************************************)
(* Model of the HTTP <-> protocol transport bridge of py-middleware:       *)
(* bsv_middleware/django/transport.py, class DjangoTransport.              *)
(*                                                                         *)
(* The handle registries (open_non_general_handles, open_general_handles), *)
(* the certificate listener bookkeeping and the Peer-facing send           *)
(* operation are modelled as they are coded.  The Peer and the HTTP        *)
(* clients are the environment: what they send and answer is drawn from    *)
(* small sets.                                                             *)
(***************************************************************************)
EXTENDS Integers, Sequences, FiniteSets, TLC

(***************************************************************************)
(* Bounds of the model.                                                    *)
(***************************************************************************)
\* handles (pending HTTP responses) created over a behaviour
MaxHandles == 2
\* certificate listeners the Peer hands out over a behaviour
MaxListeners == 2

(***************************************************************************)
(* Value domains.                                                          *)
(***************************************************************************)
None == "none"
\* request_id fallback when neither header nor initialNonce is present
Unknown == "unknown"
\* correlation ids a client chooses for the registries: nonces and request ids
Keys == {"k1"}
AllKeys == Keys \cup {Unknown}
\* identity keys: of the senders of certificates ...
Identities == {"A", "B"}
\* ... and of the clients whose requests the transport handles
RequestIdentities == {"A"}
\* length of the request id that prefixes a general payload
RequestIdLen == 32

\* attribute naming of a message object handed to send():
\*   "snake": message_type / your_nonce only (py-sdk AuthMessage)
\*   "camel": messageType / yourNonce also answer (legacy objects, Mock)
MessageStyles == {"snake", "camel"}
\* method naming of the Peer object: "snake" is the py-sdk Peer, "both" a Peer
\* that also answers the camelCase names (unittest.mock.Mock, legacy SDK)
PeerApis == {"snake", "both"}

VARIABLES
    open_non_general_handles,    \* key -> sequence of handles (FIFO)
    open_general_handles,        \* key -> handle
    response,                    \* handle -> content of its response object
    handleIdentity,              \* handle -> identityKey of its request body
    nextHandle,                  \* next handle to create
    on_certificates_received,    \* application callback configured
    certificate_listener_ids,    \* identity_key -> listener_id (header path)
    active_certificate_listeners,\* identity_key -> listener_id (handshake path)
    current_listener_id,         \* id of the listener registered last
    peerApi,                     \* naming style of the Peer's methods
    peerCertListeners,           \* listener_id -> callback closure, as the Peer holds it
    peerStopped,                 \* listener ids the Peer was told to stop
    appCallbackCalls,            \* invocations of the application callback
    last,                        \* whether the operation that ran last was a
                                 \* general send that succeeded, or the note of
                                 \* the delivery that ran last
    pc,                          \* request thread -> the statement it is at
    sendLocal,                   \* request thread -> locals of _send_non_general_message
    listenLocal,                 \* request thread -> locals of the listener registration
    generalLocal,                \* request thread -> the general request it handles
    open_next_handlers,          \* identity_key -> continuation queued by the application
    note_deliveries,             \* whether "last" notes what a certificate delivery did
    note_requests,               \* whether "last" notes what handling a request did
    require_auth,                \* BSV_MIDDLEWARE['REQUIRE_AUTH'] of the payment middleware
    session,                     \* DjangoSessionManager.session: session key -> data
    now,                         \* time.time()
    payment_settings,            \* the WALLET and CALCULATE_REQUEST_PRICE configured
                                 \* and what constructing each middleware did
    issued_nonces,               \* the nonces sent in 402 responses so far (history)
    accepted_nonces,             \* the nonces of the envelopes accepted so far (history)
    wallet_calls,                \* calls of wallet.internalize_action so far (history)
    handled,                     \* the last request of the payment middleware and
                                 \* what was done with it
    allow_unauthenticated,       \* DjangoTransport.allow_unauthenticated
    peer_set,                    \* whether set_peer has given the transport a Peer
    message_callback             \* whether on_data has registered the Peer's callback

registryVars == <<open_non_general_handles, open_general_handles, response,
                  handleIdentity, nextHandle>>
listenerVars == <<on_certificates_received, certificate_listener_ids,
                  active_certificate_listeners, current_listener_id,
                  peerCertListeners, peerStopped, appCallbackCalls>>
threadVars == <<pc, sendLocal, listenLocal, generalLocal>>
continuationVars == <<open_next_handlers, note_deliveries, note_requests>>
paymentVars == <<require_auth, payment_settings, issued_nonces, accepted_nonces,
                 wallet_calls, handled>>
dispatchVars == <<allow_unauthenticated, peer_set, message_callback>>
sessionVars == <<session, now>>
vars == <<registryVars, listenerVars, peerApi, last, threadVars, continuationVars,
          paymentVars, dispatchVars, sessionVars>>

(***************************************************************************)
(* Python dict helpers.                                                    *)
(***************************************************************************)
EmptyMap == [x \in {} |-> None]
Put(f, k, v) == [x \in (DOMAIN f) \cup {k} |-> IF x = k THEN v ELSE f[x]]
Remove(f, k) == [x \in (DOMAIN f) \ {k} |-> f[x]]
SeqToSet(s) == {s[i] : i \in 1..Len(s)}

(***************************************************************************)
(* Messages the Peer hands to send().                                      *)
(***************************************************************************)
\* the 32 request id bytes whose base64 text is the header value k
RequestIdBytes(k) == [i \in 1..RequestIdLen |-> 1]
\* 32 bytes that are the request id of no request
StrayIdBytes == [i \in 1..RequestIdLen |-> 3]
\* base64.b64encode(bytes(request_id_bytes)).decode('utf-8')
b64encode(bytes) ==
    IF \E k \in Keys : RequestIdBytes(k) = bytes
    THEN CHOOSE k \in Keys : RequestIdBytes(k) = bytes
    ELSE "stray"

Payloads ==
    {<< >>, SubSeq(StrayIdBytes, 1, RequestIdLen - 1), StrayIdBytes,
     RequestIdBytes("k1") \o <<7>>}
    \cup {RequestIdBytes(k) : k \in Keys}

NonGeneralMessages ==
    [message_type : {"certificateResponse"}, style : MessageStyles,
     your_nonce : AllKeys, payload : {<< >>}, ctxRequest : {FALSE}]
    \cup [message_type : {"certificateResponse"}, style : {"snake"},
          your_nonce : {None}, payload : {<< >>}, ctxRequest : {FALSE}]
GeneralMessages ==
    [message_type : {"general"}, style : {"snake"},
     your_nonce : {None}, payload : Payloads, ctxRequest : {FALSE}]
InitialResponses ==
    [message_type : {"initialResponse"}, style : {"snake"},
     your_nonce : {"k1"}, payload : {<< >>}, ctxRequest : BOOLEAN]
UntypedMessages ==
    [message_type : {None}, style : {"snake"},
     your_nonce : {None}, payload : {<< >>}, ctxRequest : {FALSE}]

\* hasattr(message, 'messageType'): the camelCase attributes exist
HasCamelAttrs(msg) == msg.style = "camel"

(***************************************************************************)
(* Response objects.                                                       *)
(***************************************************************************)
FreshResponse == [status |-> 200, headers |-> "none", content |-> "empty"]

(***************************************************************************)
(* DjangoTransport._send_non_general_message                               *)
(***************************************************************************)
\* variant that looks the handles up with setdefault: a lookup that finds
\* nothing leaves an empty list under the key
send_non_general_message_setdefault(ng, resp, msg) ==
    IF msg.your_nonce = None
    THEN [ng |-> ng, resp |-> resp, result |-> "MissingYourNonce", handle |-> 0]
    ELSE IF msg.your_nonce \notin DOMAIN ng \/ ng[msg.your_nonce] = << >>
    THEN [ng |-> Put(ng, msg.your_nonce, << >>), resp |-> resp,
          result |-> "NoOpenHandle", handle |-> 0]
    ELSE LET k == msg.your_nonce
             h == Head(ng[k])
             withHeaders == [resp EXCEPT ![h].headers = "auth"]
         IN  IF ~HasCamelAttrs(msg)
             THEN [ng |-> ng, resp |-> withHeaders,
                   result |-> "SendFailed", handle |-> 0]
             ELSE [ng |-> IF Tail(ng[k]) = << >>
                          THEN Remove(ng, k)
                          ELSE [ng EXCEPT ![k] = Tail(@)],
                   resp |-> [withHeaders EXCEPT ![h].content = "auth_json"],
                   result |-> "ok", handle |-> h]

send_non_general_message(ng, resp, msg) ==
    IF msg.your_nonce = None
    THEN [ng |-> ng, resp |-> resp, result |-> "MissingYourNonce", handle |-> 0]
    ELSE IF msg.your_nonce \notin DOMAIN ng \/ ng[msg.your_nonce] = << >>
    THEN [ng |-> ng, resp |-> resp, result |-> "NoOpenHandle", handle |-> 0]
    ELSE LET k == msg.your_nonce
             h == Head(ng[k])
             withHeaders == [resp EXCEPT ![h].headers = "auth"]
         IN  IF ~HasCamelAttrs(msg)
             \* message.messageType in the log call raises AttributeError after
             \* the headers were set; the except clause returns the error
             THEN [ng |-> ng, resp |-> withHeaders,
                   result |-> "SendFailed", handle |-> 0]
             ELSE [ng |-> IF Tail(ng[k]) = << >>
                          THEN Remove(ng, k)
                          ELSE [ng EXCEPT ![k] = Tail(@)],
                   resp |-> [withHeaders EXCEPT ![h].content = "auth_json"],
                   result |-> "ok", handle |-> h]

(***************************************************************************)
(* DjangoTransport._parse_general_message_payload                          *)
(***************************************************************************)
parse_general_message_payload(payload) ==
    [status_code |-> 200, headers |-> "none", body |-> payload]

(***************************************************************************)
(* DjangoTransport._send_general_message                                   *)
(***************************************************************************)
\* variant that answers through the handle but forgets "del": the handle
\* stays open after the send
send_general_message_keeps_handle(gen, resp, msg) ==
    IF Len(msg.payload) < RequestIdLen
    THEN [gen |-> gen, resp |-> resp, result |-> "InvalidPayload", handle |-> 0]
    ELSE LET request_id == b64encode(SubSeq(msg.payload, 1, RequestIdLen))
         IN  IF request_id \notin DOMAIN gen
             THEN [gen |-> gen, resp |-> resp, result |-> "NoOpenHandle", handle |-> 0]
             ELSE [gen |-> gen,
                   resp |-> [resp EXCEPT ![gen[request_id]].headers = "auth+request-id"],
                   result |-> "ok", handle |-> gen[request_id]]

send_general_message(gen, resp, msg) ==
    IF Len(msg.payload) < RequestIdLen
    THEN [gen |-> gen, resp |-> resp, result |-> "InvalidPayload", handle |-> 0]
    ELSE LET request_id == b64encode(SubSeq(msg.payload, 1, RequestIdLen))
         IN  IF request_id \notin DOMAIN gen
             THEN [gen |-> gen, resp |-> resp, result |-> "NoOpenHandle", handle |-> 0]
             ELSE LET h == gen[request_id]
                      parsed == parse_general_message_payload(
                                  SubSeq(msg.payload, RequestIdLen + 1, Len(msg.payload)))
                  IN  [gen |-> Remove(gen, request_id),
                       resp |-> [resp EXCEPT
                                   ![h].headers = "auth+request-id",
                                   ![h].status = parsed.status_code,
                                   ![h].content = IF parsed.body # << >>
                                                  THEN "payload_body" ELSE @],
                       result |-> "ok", handle |-> h]

(***************************************************************************)
(* DjangoTransport._send_initial_response: stores the answer on the        *)
(* request of the context; it looks at no registry.                        *)
(***************************************************************************)
send_initial_response(msg) ==
    IF ~msg.ctxRequest
    THEN [result |-> "NoRequestContext", stored |-> FALSE]
    ELSE [result |-> "ok", stored |-> TRUE]

(***************************************************************************)
(* DjangoTransport.send                                                    *)
(***************************************************************************)
send(ng, gen, resp, msg) ==
    IF msg.message_type = None
    THEN [ng |-> ng, gen |-> gen, resp |-> resp,
          result |-> "MissingMessageType", handle |-> 0, stored |-> FALSE]
    ELSE IF msg.message_type = "initialResponse"
    THEN LET r == send_initial_response(msg)
         IN  [ng |-> ng, gen |-> gen, resp |-> resp,
              result |-> r.result, handle |-> 0, stored |-> r.stored]
    ELSE IF msg.message_type # "general"
    THEN LET r == send_non_general_message(ng, resp, msg)
         IN  [ng |-> r.ng, gen |-> gen, resp |-> r.resp,
              result |-> r.result, handle |-> r.handle, stored |-> FALSE]
    ELSE LET r == send_general_message(gen, resp, msg)
         IN  [ng |-> ng, gen |-> r.gen, resp |-> r.resp,
              result |-> r.result, handle |-> r.handle, stored |-> FALSE]

(***************************************************************************)
(* The Peer object as the transport sees it.                               *)
(***************************************************************************)
\* hasattr(self.peer, 'session_manager'), 'listen_for_certificates_received',
\* 'stop_listening_for_certificates_received'
PeerHasSnake(api) == api \in {"snake", "both"}
\* hasattr(self.peer, 'sessionManager'), 'listenForCertificatesReceived',
\* 'stopListeningForCertificatesReceived'
PeerHasCamel(api) == api = "both"
\* no listener id (Python None)
NoListener == -1
\* the Peer numbers its listeners from 0
NextListenerId(peer) == Cardinality(DOMAIN peer)
ActiveListeners(peer, stopped) == (DOMAIN peer) \ stopped

(***************************************************************************)
(* DjangoTransport._register_certificate_listener: registers the closure   *)
(* certificate_callback(identity_key) with the Peer.                       *)
(***************************************************************************)
register_certificate_listener(peer, api, identity_key) ==
    IF ~PeerHasSnake(api)
    THEN [peer |-> peer, listener_id |-> NoListener]
    ELSE LET lid == NextListenerId(peer)
         IN  [peer |-> Put(peer, lid, [kind |-> "register",
                                       identity_key |-> identity_key, resp |-> 0]),
              listener_id |-> lid]

(***************************************************************************)
(* DjangoTransport._handle_request_via_peer, step 2.5: certificate         *)
(* listener registration of the header path.                               *)
(***************************************************************************)
register_listener_step(ids, peer, api, onCert, identity_key, has_session) ==
    IF identity_key # None /\ PeerHasSnake(api) /\ onCert
       /\ ~has_session /\ identity_key \notin DOMAIN ids
    THEN LET r == register_certificate_listener(peer, api, identity_key)
         IN  [ids |-> IF r.listener_id # NoListener
                      THEN Put(ids, identity_key, r.listener_id) ELSE ids,
              peer |-> r.peer, called |-> TRUE]
    ELSE [ids |-> ids, peer |-> peer, called |-> FALSE]

(***************************************************************************)
(* DjangoTransport._setup_certificate_listener: the handshake path.        *)
(***************************************************************************)
setup_certificate_listener(active, current, peer, api, identity_key, h) ==
    IF PeerHasCamel(api)
    THEN LET lid == NextListenerId(peer)
         IN  [active |-> Put(active, identity_key, lid), current |-> lid,
              peer |-> Put(peer, lid, [kind |-> "setup",
                                       identity_key |-> identity_key, resp |-> h]),
              called |-> TRUE]
    ELSE [active |-> active, current |-> current, peer |-> peer, called |-> FALSE]

(***************************************************************************)
(* DjangoTransport._cleanup_certificate_listener                           *)
(***************************************************************************)
\* variant that stops the listener at the Peer but forgets to pop the
\* identity from _certificate_listener_ids
cleanup_certificate_listener_keeps_id(ids, stopped, api, identity_key) ==
    IF identity_key \in DOMAIN ids
    THEN [ids |-> ids,
          stopped |-> IF PeerHasSnake(api)
                      THEN stopped \cup {ids[identity_key]} ELSE stopped]
    ELSE [ids |-> ids, stopped |-> stopped]

cleanup_certificate_listener(ids, stopped, api, identity_key) ==
    IF identity_key \in DOMAIN ids
    THEN [ids |-> Remove(ids, identity_key),
          stopped |-> IF PeerHasSnake(api)
                      THEN stopped \cup {ids[identity_key]} ELSE stopped]
    ELSE [ids |-> ids, stopped |-> stopped]

(***************************************************************************)
(* DjangoTransport._handle_belongs_to_identity and                         *)
(* DjangoTransport._cleanup_certificate_handles                            *)
(***************************************************************************)
handle_belongs_to_identity(hid, h, identity_key) == hid[h] = identity_key

RECURSIVE FilterHandles(_, _, _)
FilterHandles(hs, hid, identity_key) ==
    IF hs = << >> THEN << >>
    ELSE IF handle_belongs_to_identity(hid, Head(hs), identity_key)
         THEN FilterHandles(Tail(hs), hid, identity_key)
         ELSE <<Head(hs)>> \o FilterHandles(Tail(hs), hid, identity_key)

\* variant without the removal of the lists that the filter has emptied
cleanup_certificate_handles_keeps_keys(ng, hid, identity_key) ==
    [k \in DOMAIN ng |-> FilterHandles(ng[k], hid, identity_key)]

cleanup_certificate_handles(ng, hid, identity_key) ==
    LET kept == {k \in DOMAIN ng : \/ ng[k] = << >>
                                   \/ FilterHandles(ng[k], hid, identity_key) # << >>}
    IN  [k \in kept |-> FilterHandles(ng[k], hid, identity_key)]

(***************************************************************************)
(* The record of the operation that ran last.                              *)
(***************************************************************************)
\* the outcome that the properties below look at; any other is "other"
NotedOutcomes == {[op |-> "send_general", result |-> "ok"]}
Outcome(op, result) ==
    IF [op |-> op, result |-> result] \in NotedOutcomes
    THEN [op |-> op, result |-> result]
    ELSE [op |-> "other", result |-> None]

NoMessage == [message_type |-> None, style |-> "snake", your_nonce |-> None,
              payload |-> << >>, ctxRequest |-> FALSE]

(***************************************************************************)
(* What the Peer does inside message_callback (handle_incoming_message).   *)
(***************************************************************************)
\* handshake and header path: ctx is a dict that carries the request
HandshakePeerActs ==
    {[kind |-> k, msg |-> NoMessage] : k \in {"silent", "error"}}
    \cup {[kind |-> "send", msg |-> m] :
            m \in {x \in NonGeneralMessages : x.your_nonce \in Keys}}
    \cup {[kind |-> "send", msg |-> m] :
            m \in {x \in InitialResponses : x.ctxRequest}}
\* general path: ctx is None; the Peer verifies the message or not, and may
\* send a general message
GeneralPeerActs ==
    {[kind |-> k, msg |-> NoMessage] : k \in {"verified", "rejected"}}
    \cup {[kind |-> "verified+send", msg |-> m] :
            m \in {x \in GeneralMessages : Len(x.payload) >= RequestIdLen}}

\* where a handshake request takes its request id from:
\* <<x-bsv-auth-request-id header, initialNonce of the body>>
RequestIdSources ==
    {<<None, "k1">>, <<"k1", "n2">>, <<None, None>>}

\* the on_certificates_received argument of handle_incoming_request: given or
\* not; once the transport has stored a callback the argument changes nothing
CallbackArgs == IF on_certificates_received THEN {TRUE} ELSE BOOLEAN
\* what the Peer's session manager answers where the transport asks it and
\* the answer decides something
HandshakeSessionAnswers(identityKey) ==
    IF identityKey # None /\ PeerHasCamel(peerApi) THEN BOOLEAN ELSE {FALSE}
HeaderSessionAnswers(identityKey, cb) ==
    IF /\ identityKey # None /\ PeerHasSnake(peerApi)
       /\ (on_certificates_received \/ cb)
       /\ identityKey \notin DOMAIN certificate_listener_ids
    THEN BOOLEAN ELSE {FALSE}

ListenersLeft == Cardinality(DOMAIN peerCertListeners) < MaxListeners

(***************************************************************************)
(* The continuations of open_next_handlers.  The transport creates the     *)
(* dict empty and only reads and deletes; the application queues a         *)
(* continuation for an identity key.  A queued continuation is noted with  *)
(* whether it raises when called and the number of times it was called.    *)
(***************************************************************************)
Continuations == [raises : BOOLEAN, runs : {0}]

\* next_handler = self.open_next_handlers.get(identity_key); if callable:
\* try: next_handler(); del self.open_next_handlers[identity_key]
\* except Exception: log
next_handler(nexts, identity_key) ==
    IF identity_key \notin DOMAIN nexts
    THEN [nexts |-> nexts, ran |-> FALSE]
    ELSE IF nexts[identity_key].raises
    THEN [nexts |-> [nexts EXCEPT ![identity_key].runs = @ + 1], ran |-> TRUE]
    ELSE [nexts |-> Remove(nexts, identity_key), ran |-> TRUE]

(***************************************************************************)
(* DjangoTransport._register_certificate_listener.certificate_callback:    *)
(* the closure of the header path, registered for identity_key.  raises    *)
(* tells whether the application callback raises when it is called;        *)
(* raised tells whether an exception leaves the closure.                   *)
(***************************************************************************)
\* variant without the sender check: certificates of any sender are taken
certificate_callback_any_sender(ids, stopped, app, nexts, onCert, api, identity_key, sender, certs, raises) ==
    IF certs = "empty"
    THEN [ids |-> ids, stopped |-> stopped, app |-> app, nexts |-> nexts,
          ran |-> FALSE, raised |-> FALSE]
    ELSE LET n == next_handler(nexts, identity_key)
             c == cleanup_certificate_listener(ids, stopped, api, identity_key)
         IN  [ids |-> c.ids, stopped |-> c.stopped,
              app |-> IF onCert THEN app + 1 ELSE app,
              nexts |-> n.nexts, ran |-> n.ran, raised |-> FALSE]

\* variant without the try/except around the application callback: its
\* exception leaves the closure before the continuation and the cleanup
certificate_callback_uncaught(ids, stopped, app, nexts, onCert, api, identity_key, sender, certs, raises) ==
    IF sender # identity_key \/ certs = "empty"
    THEN [ids |-> ids, stopped |-> stopped, app |-> app, nexts |-> nexts,
          ran |-> FALSE, raised |-> FALSE]
    ELSE IF onCert /\ raises
    THEN [ids |-> ids, stopped |-> stopped, app |-> app + 1, nexts |-> nexts,
          ran |-> FALSE, raised |-> TRUE]
    ELSE LET n == next_handler(nexts, identity_key)
             c == cleanup_certificate_listener(ids, stopped, api, identity_key)
         IN  [ids |-> c.ids, stopped |-> c.stopped,
              app |-> IF onCert THEN app + 1 ELSE app,
              nexts |-> n.nexts, ran |-> n.ran, raised |-> FALSE]

certificate_callback(ids, stopped, app, nexts, onCert, api, identity_key, sender, certs, raises) ==
    IF sender # identity_key
    THEN [ids |-> ids, stopped |-> stopped, app |-> app, nexts |-> nexts,
          ran |-> FALSE, raised |-> FALSE]
    ELSE IF certs = "empty"
    THEN [ids |-> ids, stopped |-> stopped, app |-> app, nexts |-> nexts,
          ran |-> FALSE, raised |-> FALSE]
    ELSE LET \* the application callback runs inside try/except Exception
             n == next_handler(nexts, identity_key)
             c == cleanup_certificate_listener(ids, stopped, api, identity_key)
         IN  [ids |-> c.ids, stopped |-> c.stopped,
              app |-> IF onCert THEN app + 1 ELSE app,
              nexts |-> n.nexts, ran |-> n.ran, raised |-> FALSE]

(***************************************************************************)
(* DjangoTransport._setup_certificate_listener.certificate_callback:       *)
(* the closure of the handshake path, registered for identity_key with the *)
(* response of handle h; its on_certificates_received argument is None.    *)
(***************************************************************************)
setup_certificate_callback(ng, resp, hid, stopped, current, api, identity_key, h, sender, certs) ==
    IF sender # identity_key
    THEN [ng |-> ng, resp |-> resp, stopped |-> stopped]
    ELSE IF certs = "empty"
    THEN [ng |-> cleanup_certificate_handles(ng, hid, identity_key),
          resp |-> [resp EXCEPT ![h].status = 400, ![h].content = "no_certificates"],
          stopped |-> stopped]
    ELSE [ng |-> cleanup_certificate_handles(ng, hid, identity_key),
          resp |-> resp,
          \* "if listener_id and hasattr(...)": id 0 is falsy
          stopped |-> IF current # NoListener /\ current # 0 /\ PeerHasCamel(api)
                      THEN stopped \cup {current} ELSE stopped]

(***************************************************************************)
(* Object lifetime.  A response object is reachable through an open handle *)
(* or through the closure of a listener the Peer still holds; the Peer     *)
(* drops the closure of a listener it was told to stop: of a stopped       *)
(* listener only the identity it was registered for is kept.  What nothing *)
(* references any more is left out of the state.                           *)
(***************************************************************************)
Stopped(c) == [kind |-> "stopped", identity_key |-> c.identity_key, resp |-> 0]
Restrict(f, S) == [x \in (DOMAIN f) \cap S |-> f[x]]
LiveHandles(ng, gen, peer) ==
    UNION {SeqToSet(ng[k]) : k \in DOMAIN ng}
    \cup {gen[k] : k \in DOMAIN gen}
    \cup {peer[l].resp : l \in DOMAIN peer}

Commit(ng, gen, resp, hid, peer, stopped) ==
    LET held == [l \in DOMAIN peer |-> IF l \in stopped THEN Stopped(peer[l]) ELSE peer[l]]
        live == LiveHandles(ng, gen, held)
    IN  /\ open_non_general_handles' = ng
        /\ open_general_handles' = gen
        /\ response' = Restrict(resp, live)
        /\ handleIdentity' = Restrict(hid, live)
        /\ peerCertListeners' = held
        /\ peerStopped' = stopped

(***************************************************************************)
(* DjangoTransport.handle_incoming_request for POST /.well-known/bsv/auth  *)
(* (_handle_request_via_peer -> _handle_well_known_auth)                   *)
(***************************************************************************)
\* the note of a request, kept where the requests are noted: what the
\* handler was given, what it had registered when it called the Peer, and
\* what it returned
RequestNote(d, o) == IF note_requests THEN d ELSE o
\* JsonResponse(data, status=status): a response object of its own
JsonResponse(status, content) ==
    [status |-> status, headers |-> "none", content |-> content]
\* the handle h is in a registry
HandleOpen(ng, gen, h) ==
    \/ \E k \in DOMAIN ng : h \in SeqToSet(ng[k])
    \/ \E k \in DOMAIN gen : gen[k] = h

\* empty or undecodable body: the handler fails before it registers anything
WellKnownAuthBadBody ==
    \E cb \in CallbackArgs :
        /\ on_certificates_received' = (on_certificates_received \/ cb)
        /\ last' = Outcome("well_known_auth", "500")
        /\ UNCHANGED <<registryVars, certificate_listener_ids,
                       active_certificate_listeners, current_listener_id,
                       peerCertListeners, peerStopped, appCallbackCalls, peerApi, threadVars, continuationVars, paymentVars, dispatchVars, sessionVars>>

well_known_auth(src, identityKey, has_session, act) ==
    LET request_id == IF src[1] # None THEN src[1]
                      ELSE IF src[2] # None THEN src[2] ELSE Unknown
        h == nextHandle
        ng1 == IF request_id \in DOMAIN open_non_general_handles
               THEN [open_non_general_handles EXCEPT ![request_id] = Append(@, h)]
               ELSE Put(open_non_general_handles, request_id, <<h>>)
        resp1 == Put(response, h, FreshResponse)
        wantListener == identityKey # None /\ PeerHasCamel(peerApi) /\ ~has_session
        l == IF wantListener
             THEN setup_certificate_listener(active_certificate_listeners,
                      current_listener_id, peerCertListeners, peerApi, identityKey, h)
             ELSE [active |-> active_certificate_listeners,
                   current |-> current_listener_id,
                   peer |-> peerCertListeners, called |-> FALSE]
        \* _dict_to_auth_message raises when the identity key is missing:
        \* the Peer is not called
        called == identityKey # None
        s == IF called /\ act.kind = "send"
             THEN send(ng1, open_general_handles, resp1, act.msg)
             ELSE [ng |-> ng1, gen |-> open_general_handles, resp |-> resp1,
                   result |-> None, handle |-> 0, stored |-> FALSE]
        error == \/ ~called
                 \/ act.kind = "error"
                 \/ act.kind = "send" /\ s.result # "ok"
    IN  [ng |-> s.ng, gen |-> s.gen, resp |-> s.resp,
         hid |-> Put(handleIdentity, h, identityKey),
         active |-> l.active, current |-> l.current, peer |-> l.peer,
         listened |-> l.called, request_id |-> request_id, handle |-> h,
         dispatched |-> called, sendResult |-> s.result, consumed |-> s.handle,
         registered |-> HandleOpen(ng1, open_general_handles, h),
         registered_under |-> {k \in DOMAIN ng1 : h \in SeqToSet(ng1[k])},
         handle_response |-> s.resp[h],
         returned |-> IF error THEN JsonResponse(500, "error_json")
                      ELSE IF s.stored THEN JsonResponse(200, "initial_response_json")
                      ELSE JsonResponse(200, "processing_json"),
         result |-> IF error THEN "500"
                    ELSE IF s.stored THEN "initial_response_json"
                    ELSE "processing_json"]

WellKnownAuth ==
    \E src \in RequestIdSources, identityKey \in RequestIdentities \cup {None},
       cb \in CallbackArgs, act \in HandshakePeerActs :
      \E has_session \in HandshakeSessionAnswers(identityKey) :
        \E r \in {well_known_auth(src, identityKey, has_session, act)} :
            /\ nextHandle <= MaxHandles
            /\ r.listened => ListenersLeft
            /\ nextHandle' = nextHandle + 1
            /\ Commit(r.ng, r.gen, r.resp, r.hid, r.peer, peerStopped)
            /\ on_certificates_received' = (on_certificates_received \/ cb)
            /\ active_certificate_listeners' = r.active
            /\ current_listener_id' = r.current
            /\ last' = RequestNote(
                          [op |-> "request", path |-> "handshake", src |-> src,
                           act |-> act, dispatched |-> r.dispatched,
                           handle |-> r.handle, registered |-> r.registered,
                           registered_under |-> r.registered_under,
                           sendResult |-> r.sendResult, consumed |-> r.consumed,
                           handle_response |-> r.handle_response,
                           returned |-> r.returned],
                          Outcome("well_known_auth", r.result))
            /\ UNCHANGED <<certificate_listener_ids, appCallbackCalls, peerApi, threadVars, continuationVars, paymentVars, dispatchVars, sessionVars>>

(***************************************************************************)
(* DjangoTransport._setup_general_message_listener: stores the handle      *)
(* under the request id.                                                   *)
(***************************************************************************)
setup_general_message_listener(gen, request_id, h) == Put(gen, request_id, h)

(***************************************************************************)
(* DjangoTransport.handle_incoming_request for a request that carries      *)
(* x-bsv-auth-* headers and x-bsv-auth-request-id                          *)
(* (_handle_request_via_peer -> _handle_general_message)                   *)
(***************************************************************************)
general_request(rid, identityKey, onCert, has_session, act) ==
    LET l == register_listener_step(certificate_listener_ids, peerCertListeners,
                                    peerApi, onCert, identityKey, has_session)
        \* _build_auth_message_from_request raises without identity key
        built == identityKey # None
        h == nextHandle
        gen1 == IF built
                THEN setup_general_message_listener(open_general_handles, rid, h)
                ELSE open_general_handles
        resp1 == IF built THEN Put(response, h, FreshResponse) ELSE response
        s == IF built /\ act.kind = "verified+send"
             THEN send(open_non_general_handles, gen1, resp1, act.msg)
             ELSE [ng |-> open_non_general_handles, gen |-> gen1, resp |-> resp1,
                   result |-> None, handle |-> 0, stored |-> FALSE]
    IN  [ng |-> s.ng, gen |-> s.gen, resp |-> s.resp,
         hid |-> IF built THEN Put(handleIdentity, h, None) ELSE handleIdentity,
         ids |-> l.ids, peer |-> l.peer, listened |-> l.called,
         registered |-> built, handle |-> IF built THEN h ELSE 0,
         dispatched |-> built,
         open_at_dispatch |-> HandleOpen(open_non_general_handles, gen1,
                                         IF built THEN h ELSE 0),
         sendResult |-> s.result, consumed |-> s.handle,
         result |-> IF ~built THEN "500"
                    ELSE IF act.kind = "rejected" THEN "401"
                    ELSE "continue"]

GeneralRequest ==
    \E rid \in Keys, identityKey \in RequestIdentities \cup {None},
       cb \in CallbackArgs, act \in GeneralPeerActs :
      \E has_session \in HeaderSessionAnswers(identityKey, cb) :
        \E onCert \in {on_certificates_received \/ cb} :
          \E r \in {general_request(rid, identityKey, onCert, has_session, act)} :
            /\ r.registered => nextHandle <= MaxHandles
            /\ r.listened => ListenersLeft
            /\ nextHandle' = IF r.registered THEN nextHandle + 1 ELSE nextHandle
            /\ Commit(r.ng, r.gen, r.resp, r.hid, r.peer, peerStopped)
            /\ on_certificates_received' = onCert
            /\ certificate_listener_ids' = r.ids
            /\ last' = RequestNote(
                          [op |-> "request", path |-> "general", act |-> act,
                           dispatched |-> r.dispatched, handle |-> r.handle,
                           registered |-> r.open_at_dispatch,
                           sendResult |-> r.sendResult, consumed |-> r.consumed],
                          Outcome("general_request", r.result))
            /\ UNCHANGED <<active_certificate_listeners, current_listener_id,
                           appCallbackCalls, peerApi, threadVars, continuationVars, paymentVars, dispatchVars, sessionVars>>

(***************************************************************************)
(* DjangoTransport.handle_incoming_request for a request that carries      *)
(* x-bsv-auth-* headers but no x-bsv-auth-request-id                       *)
(* (_handle_request_via_peer, steps 2.5, 3b and 4)                         *)
(***************************************************************************)
header_request(identityKey, onCert, has_session, act) ==
    LET l == register_listener_step(certificate_listener_ids, peerCertListeners,
                                    peerApi, onCert, identityKey, has_session)
        s == IF act.kind = "send"
             THEN send(open_non_general_handles, open_general_handles,
                       response, act.msg)
             ELSE [ng |-> open_non_general_handles, gen |-> open_general_handles,
                   resp |-> response, result |-> None, handle |-> 0,
                   stored |-> FALSE]
        error == \/ act.kind = "error"
                 \/ act.kind = "send" /\ s.result # "ok"
    IN  [ng |-> s.ng, gen |-> s.gen, resp |-> s.resp,
         ids |-> l.ids, peer |-> l.peer, listened |-> l.called,
         sendResult |-> s.result, consumed |-> s.handle,
         \* steps 2.5 and 3b create no handle
         dispatched |-> TRUE, handle |-> 0,
         open_at_dispatch |-> HandleOpen(open_non_general_handles,
                                         open_general_handles, 0),
         result |-> IF error THEN "400"
                    ELSE IF s.stored THEN "initial_response_json"
                    ELSE "session_check"]

HeaderRequest ==
    \E identityKey \in RequestIdentities \cup {None},
       cb \in CallbackArgs, act \in HandshakePeerActs :
      \E has_session \in HeaderSessionAnswers(identityKey, cb) :
        \E onCert \in {on_certificates_received \/ cb} :
          \E r \in {header_request(identityKey, onCert, has_session, act)} :
            /\ r.listened => ListenersLeft
            /\ Commit(r.ng, r.gen, r.resp, handleIdentity, r.peer, peerStopped)
            /\ on_certificates_received' = onCert
            /\ certificate_listener_ids' = r.ids
            /\ last' = RequestNote(
                          [op |-> "request", path |-> "header", act |-> act,
                           dispatched |-> r.dispatched, handle |-> r.handle,
                           registered |-> r.open_at_dispatch,
                           sendResult |-> r.sendResult, consumed |-> r.consumed],
                          Outcome("header_request", r.result))
            /\ UNCHANGED <<nextHandle, active_certificate_listeners,
                           current_listener_id, appCallbackCalls, peerApi, threadVars, continuationVars, paymentVars, dispatchVars, sessionVars>>

(***************************************************************************)
(* DjangoTransport.send called by the Peer outside a request dispatch.     *)
(***************************************************************************)
\* the note of an operation, kept where the operations are noted: what it
\* was given and what it had done when it returned
Note(d, o) == IF note_deliveries THEN d ELSE o

SendOutcome(op, msg) ==
    \E s \in {send(open_non_general_handles, open_general_handles, response, msg)} :
        /\ Commit(s.ng, s.gen, s.resp, handleIdentity, peerCertListeners, peerStopped)
        /\ last' = Note([op |-> "send", message |-> msg, result |-> s.result],
                         Outcome(op, s.result))
        /\ UNCHANGED <<nextHandle, on_certificates_received,
                       certificate_listener_ids, active_certificate_listeners,
                       current_listener_id, appCallbackCalls, peerApi, threadVars, continuationVars, paymentVars, dispatchVars, sessionVars>>

SendNonGeneral ==
    \E msg \in NonGeneralMessages :
        /\ msg.message_type \notin {None, "initialResponse", "general"}
        /\ SendOutcome("send_non_general", msg)

SendGeneral ==
    \E msg \in GeneralMessages :
        /\ msg.message_type = "general"
        /\ SendOutcome("send_general", msg)

SendInitialResponse ==
    \E msg \in InitialResponses :
        /\ msg.message_type = "initialResponse"
        /\ SendOutcome("send_initial", msg)

SendUntyped ==
    \E msg \in UntypedMessages :
        /\ msg.message_type = None
        /\ SendOutcome("send_untyped", msg)

(***************************************************************************)
(* The Peer delivers certificates: it invokes the callback of a listener   *)
(* that it still holds.                                                    *)
(***************************************************************************)
CertKinds == {"empty", "some"}

CertificatesReceived ==
    \E lid \in ActiveListeners(peerCertListeners, peerStopped),
       sender \in Identities, certs \in CertKinds, raises \in BOOLEAN :
        LET c == peerCertListeners[lid]
            r == certificate_callback(certificate_listener_ids, peerStopped,
                     appCallbackCalls, open_next_handlers,
                     on_certificates_received, peerApi,
                     c.identity_key, sender, certs, raises)
        IN  /\ c.kind = "register"
            /\ Commit(open_non_general_handles, open_general_handles, response,
                      handleIdentity, peerCertListeners, r.stopped)
            /\ certificate_listener_ids' = r.ids
            /\ appCallbackCalls' = r.app
            /\ open_next_handlers' = r.nexts
            /\ last' = IF sender # c.identity_key
                       THEN Outcome("certificate_callback", "mismatch")
                       ELSE Note([op |-> "delivery", kind |-> "register",
                                  certs |-> certs,
                                  called |-> r.app # appCallbackCalls,
                                  app_raises |-> raises /\ r.app # appCallbackCalls,
                                  ran |-> r.ran, raised |-> r.raised,
                                  unregistered |-> c.identity_key \notin DOMAIN r.ids,
                                  stopped |-> lid \in r.stopped,
                                  error_written |-> FALSE],
                                 Outcome("certificate_callback", certs))
            /\ UNCHANGED <<nextHandle, on_certificates_received,
                           active_certificate_listeners, current_listener_id,
                           peerApi, threadVars, note_deliveries, note_requests, paymentVars,
                           dispatchVars, sessionVars>>

CertificatesReceivedHandshake ==
    \E lid \in ActiveListeners(peerCertListeners, peerStopped),
       sender \in Identities, certs \in CertKinds :
        LET c == peerCertListeners[lid]
            r == setup_certificate_callback(open_non_general_handles, response,
                     handleIdentity, peerStopped, current_listener_id, peerApi,
                     c.identity_key, c.resp, sender, certs)
        IN  /\ c.kind = "setup"
            /\ Commit(r.ng, open_general_handles, r.resp, handleIdentity,
                      peerCertListeners, r.stopped)
            /\ last' = IF sender # c.identity_key
                       THEN Outcome("setup_certificate_callback", "mismatch")
                       ELSE Note([op |-> "delivery", kind |-> "setup",
                                  certs |-> certs,
                                  called |-> FALSE, app_raises |-> FALSE,
                                  ran |-> FALSE, raised |-> FALSE,
                                  unregistered |-> c.identity_key \notin
                                      DOMAIN active_certificate_listeners,
                                  stopped |-> lid \in r.stopped,
                                  error_written |-> r.resp[c.resp] # response[c.resp]],
                                 Outcome("setup_certificate_callback", certs))
            /\ UNCHANGED <<nextHandle, on_certificates_received,
                           certificate_listener_ids, active_certificate_listeners,
                           current_listener_id, appCallbackCalls, peerApi,
                           threadVars, continuationVars, paymentVars, dispatchVars, sessionVars>>

\* the application queues a continuation for an identity key:
\* transport.open_next_handlers[identity_key] = next_fn
QueueNextHandler ==
    \E identity_key \in RequestIdentities, next_fn \in Continuations :
        /\ identity_key \in DOMAIN open_next_handlers =>
              open_next_handlers[identity_key] # next_fn
        /\ open_next_handlers' = Put(open_next_handlers, identity_key, next_fn)
        /\ last' = Outcome("queue_next_handler", None)
        /\ UNCHANGED <<registryVars, listenerVars, peerApi, threadVars,
                       note_deliveries, note_requests, paymentVars, dispatchVars,
                       sessionVars>>

(***************************************************************************)
(* Request threads.  Django serves requests on several threads and the     *)
(* transport takes no lock: a thread may be preempted between any two      *)
(* statements of a method.                                                 *)
(***************************************************************************)
Threads == {"t1", "t2"}
\* the nonce the racing sends carry
RaceNonce == "k1"
IdleSend == [style |-> "snake", handle |-> 0, wrote |-> 0, popped |-> 0,
             result |-> None]
IdleListen == [identity_key |-> None, has_session |-> FALSE,
               listener_id |-> NoListener]
\* a thread that handles no general request: no message, request.auth not
\* set, no general_message_callback of its request held by the Peer
IdleGeneral == [identity_key |-> None, listening |-> FALSE, auth |-> "absent",
                verified |-> FALSE, result |-> None]
Goto(t, label) == pc' = [pc EXCEPT ![t] = label]
AllDone == \A t \in Threads : pc[t] = "done"

(***************************************************************************)
(* The payment middlewares: bsv_middleware/django/payment_middleware.py    *)
(* ("library") and example/django_example/adapter/                         *)
(* payment_middleware_complete.py ("complete").  Neither keeps state       *)
(* between requests; the nonces issued, the nonces accepted and the calls  *)
(* of the wallet are noted to state what the middlewares guarantee.        *)
(***************************************************************************)
MaxWalletCalls == 2

Middlewares == {"library", "complete"}
Paths == {"/p"}
\* request.auth: absent, an object without identity_key, or the identity key
AuthStates == {"absent", "no_key", Unknown, None, "A"}
\* calculate_request_price(request); 100 is the default price
Prices == {0, 100}
\* what wallet.internalize_action answers when it is called: accepted without
\* satoshisPaid, accepted with satoshisPaid = PaidLess, accepted False, or an
\* exception
WalletAnswers == {"accepted", "accepted_less", "rejected", "raises"}
PaidLess == 50

\* secrets.token_hex(16) and sha256(...).hexdigest()[:32]: 32 hex characters
NonceSpace == {"n1", "n2"}
\* strings a client can present as nonce or derivation prefix
ShortHex == "abc123"
Punctuated == "????????????????"
StrLen(str) ==
    CASE str \in NonceSpace -> 32
      [] str = ShortHex -> 6
      [] str = Punctuated -> 16
      [] str = "" -> 0
      [] str = "/p" -> 2
      [] str = "/p:A..." -> 7
      [] str = "/p:unknown..." -> 13
IsHex(str) == str \in NonceSpace \cup {ShortHex}
IsAlnum(str) == str \in NonceSpace \cup {ShortHex}

\* str(price)
str(n) == ToString(n)

\* the x-bsv-payment header: absent, not JSON, or a JSON object whose keys
\* may be missing (None)
Absent == [kind |-> "absent", nonce |-> None, derivationPrefix |-> None,
           beef |-> None]
NotJson == [kind |-> "not_json", nonce |-> None, derivationPrefix |-> None,
            beef |-> None]
Envelope(nonce, derivationPrefix, beef) ==
    [kind |-> "json", nonce |-> nonce, derivationPrefix |-> derivationPrefix,
     beef |-> beef]
Envelopes ==
    {Envelope("n1", "/p:A...", "beef"),   \* the prefix of path /p and identity A
     Envelope("n1", "/p", "beef"),        \* the prefix of path /p alone
     Envelope("n1", "n1", "beef"),        \* a nonce as prefix
     Envelope(ShortHex, "/p:A...", "beef"),
     Envelope("n1", Punctuated, "beef"),
     Envelope("n1", None, "beef"),
     Envelope("n1", "/p:A...", None)}
PaymentHeaders == {Absent, NotJson} \cup Envelopes

PaymentRequests ==
    {r \in [mw : Middlewares, path : Paths, auth : AuthStates, price : Prices,
             price_raises : BOOLEAN, header : PaymentHeaders,
             wallet : WalletAnswers] :
        \* what the request does not decide is left at one value
        /\ r.price_raises => (r.price = 0 /\ r.header = Absent)
        /\ r.wallet # "accepted" =>
              /\ r.mw = "complete" /\ r.price > 0
              /\ r.header \in {Envelope("n1", "/p:A...", "beef"),
                                Envelope("n1", "/p", "beef")}}

\* request.payment: unset, or one PaymentInfo
NoRecord == << >>
\* PaymentInfo(satoshis_paid=...): accepted when it is not given
PaymentInfo(satoshis_paid) == [satoshis_paid |-> satoshis_paid, accepted |-> TRUE]
BSVMalformedPaymentException == [code |-> "ERR_MALFORMED_PAYMENT", status |-> 400]
BSVInvalidDerivationPrefixException ==
    [code |-> "ERR_INVALID_DERIVATION_PREFIX", status |-> 400]

\* what a middleware did with a request: the response (status, code, the
\* headers x-bsv-payment-satoshis-required, -derivation-prefix and
\* -satoshis-paid, the nonce of the 402), whether the view ran, request.payment,
\* and which of its steps ran
Outcome0 ==
    [status |-> 200, code |-> None, view |-> FALSE, record |-> NoRecord,
     required |-> None, nonce |-> None, prefix |-> None, paid |-> None,
     priced |-> FALSE, parsed |-> FALSE, wallet |-> FALSE]
Error(o, status, code) == [o EXCEPT !.status = status, !.code = code]

(***************************************************************************)
(* PySdkBridge (py_sdk_bridge.py) with a wallet that offers get_public_key *)
(* and internalize_action and neither create_nonce nor verify_nonce.       *)
(***************************************************************************)
\* PySdkBridge.verify_nonce
bridge_verify_nonce(nonce) ==
    IF nonce = "" THEN FALSE
    ELSE IF StrLen(nonce) < 16 THEN FALSE
    ELSE IF StrLen(nonce) \in {32, 64} /\ IsHex(nonce) THEN TRUE
    ELSE IF IsHex(nonce) THEN TRUE
    ELSE IsAlnum(nonce)

\* module-level verify_nonce(nonce) without wallet
verify_nonce(nonce) ==
    IF nonce = "" \/ StrLen(nonce) < 16 THEN FALSE
    ELSE IF IsHex(nonce) THEN TRUE
    ELSE IsAlnum(nonce)

\* PySdkBridge.parse_payment_header: the BSVPayment, or << >> when it raises
\* BSVMalformedPaymentException
parse_payment_header(payment_header) ==
    IF payment_header = NotJson THEN << >>
    ELSE <<[derivation_prefix |-> IF payment_header.derivationPrefix = None
                                  THEN "" ELSE payment_header.derivationPrefix]>>

\* PySdkBridge.internalize_action: returns a fixed result, the wallet is not
\* called
internalize_action(payment_data) == [accepted |-> TRUE, called |-> FALSE]

(***************************************************************************)
(* payment_middleware.BSVPaymentMiddleware                                 *)
(***************************************************************************)
\* _request_payment, created |-> the nonce create_nonce returns
request_payment(o, required_satoshis, created) ==
    [o EXCEPT !.status = 402, !.code = "ERR_PAYMENT_REQUIRED",
              !.required = str(required_satoshis),
              !.nonce = created, !.prefix = created]

\* _verify_payment and the except clauses of __call__
verify_payment(o, payment_header, request_price) ==
    LET parsed == parse_payment_header(payment_header)
    IN  IF parsed = << >>
        THEN Error(o, BSVMalformedPaymentException.status,
                   BSVMalformedPaymentException.code)
        ELSE IF ~bridge_verify_nonce(parsed[1].derivation_prefix)
        THEN Error([o EXCEPT !.parsed = TRUE],
                   BSVInvalidDerivationPrefixException.status,
                   BSVInvalidDerivationPrefixException.code)
        ELSE LET result == internalize_action(parsed[1])
             IN  \* request._bsv_payment_success: the header process_response adds
                 [o EXCEPT !.parsed = TRUE, !.wallet = result.called,
                           !.record = <<[satoshis_paid |-> request_price,
                                         accepted |-> result.accepted]>>,
                           !.paid = str(request_price),
                           !.view = TRUE]

\* __call__ with _process_payment
process_payment(requireAuth, request, created) ==
    IF requireAuth /\ request.auth \in {"absent", "no_key"}
    THEN Error(Outcome0, 500, "ERR_SERVER_MISCONFIGURED")
    ELSE IF request.price_raises
    THEN Error([Outcome0 EXCEPT !.priced = TRUE], 500, "ERR_PAYMENT_INTERNAL")
    ELSE LET o == [Outcome0 EXCEPT !.priced = TRUE]
         IN  IF request.price = 0
             THEN [o EXCEPT !.record = <<PaymentInfo(0)>>, !.view = TRUE]
             ELSE IF request.header = Absent
             THEN request_payment(o, request.price, created)
             ELSE verify_payment(o, request.header, request.price)

(***************************************************************************)
(* payment_middleware_complete.BSVPaymentMiddleware                        *)
(***************************************************************************)
\* identity_key[:20]: the keys of the model are shorter than 20 characters
Prefix20(identity_key) == identity_key

\* _get_derivation_prefix: None[:20] raises and the except returns the path
get_derivation_prefix(path, auth) ==
    IF auth \in {"absent", "no_key"} THEN path
    ELSE IF auth = Unknown THEN path
    ELSE IF auth = None THEN path
    ELSE path \o ":" \o Prefix20(auth) \o "..."

\* _payment_error: status_map.get(code, 400)
payment_error_status(code) ==
    CASE code \in {"ERR_PAYMENT_REQUIRED", "ERR_PAYMENT_REJECTED",
                   "ERR_INSUFFICIENT_PAYMENT"} -> 402
      [] code = "ERR_SERVER_MISCONFIGURED" -> 500
      [] code = "ERR_AUTHENTICATION_REQUIRED" -> 401
      [] OTHER -> 400
payment_error(o, code) == Error(o, payment_error_status(code), code)

\* _parse_payment_data: << >> for None
parse_payment_data(payment_header) ==
    IF payment_header = NotJson THEN << >>
    ELSE IF \E field \in {"nonce", "derivationPrefix", "beef"} :
                payment_header[field] = None
    THEN << >>
    ELSE <<payment_header>>

\* _verify_nonce
complete_verify_nonce(payment_data) ==
    IF payment_data.nonce = "" THEN FALSE ELSE verify_nonce(payment_data.nonce)

\* _process_payment_with_wallet: the result of wallet.internalize_action, or
\* accepted False when it raises
process_payment_with_wallet(answer) ==
    [accepted |-> answer \in {"accepted", "accepted_less"}, called |-> TRUE,
     satoshisPaid |-> IF answer = "accepted_less" THEN <<PaidLess>> ELSE << >>]

\* variant with the default of an unreported amount at 0
result_satoshis_paid_default_zero(payment_result, expected_price) ==
    IF payment_result.satoshisPaid = << >> THEN 0
    ELSE payment_result.satoshisPaid[1]

\* payment_result.get('satoshisPaid', expected_price)
result_satoshis_paid(payment_result, expected_price) ==
    IF payment_result.satoshisPaid = << >> THEN expected_price
    ELSE payment_result.satoshisPaid[1]

\* variant that sends the derivation prefix as nonce instead of a created one
complete_request_payment_prefix_as_nonce(o, request, created) ==
    [o EXCEPT !.status = 402, !.code = "ERR_PAYMENT_REQUIRED",
              !.required = str(request.price),
              !.nonce = get_derivation_prefix(request.path, request.auth),
              !.prefix = get_derivation_prefix(request.path, request.auth)]

\* _request_payment of the complete middleware
complete_request_payment(o, request, created) ==
    [o EXCEPT !.status = 402, !.code = "ERR_PAYMENT_REQUIRED",
              !.required = str(request.price), !.nonce = created,
              !.prefix = get_derivation_prefix(request.path, request.auth)]

\* variant without the check of payment_result['accepted']
complete_verify_payment_ignores_result(o, request) ==
    LET parsed == parse_payment_data(request.header)
    IN  IF parsed = << >> THEN payment_error(o, "ERR_MALFORMED_PAYMENT")
        ELSE LET payment_data == parsed[1]
                 p == [o EXCEPT !.parsed = TRUE]
             IN  IF ~complete_verify_nonce(payment_data)
                 THEN payment_error(p, "ERR_INVALID_PAYMENT")
                 ELSE IF payment_data.derivationPrefix #
                             get_derivation_prefix(request.path, request.auth)
                 THEN payment_error(p, "ERR_INVALID_DERIVATION_PREFIX")
                 ELSE LET result == process_payment_with_wallet(request.wallet)
                      IN  [p EXCEPT !.wallet = result.called,
                                    !.record = <<[satoshis_paid |->
                                                    result_satoshis_paid(result, request.price),
                                                  accepted |-> TRUE]>>,
                                    !.view = TRUE]

\* _verify_payment of the complete middleware
complete_verify_payment(o, request) ==
    LET parsed == parse_payment_data(request.header)
    IN  IF parsed = << >> THEN payment_error(o, "ERR_MALFORMED_PAYMENT")
        ELSE LET payment_data == parsed[1]
                 p == [o EXCEPT !.parsed = TRUE]
             IN  IF ~complete_verify_nonce(payment_data)
                 THEN payment_error(p, "ERR_INVALID_PAYMENT")
                 ELSE IF payment_data.derivationPrefix #
                             get_derivation_prefix(request.path, request.auth)
                 THEN payment_error(p, "ERR_INVALID_DERIVATION_PREFIX")
                 ELSE LET result == process_payment_with_wallet(request.wallet)
                          w == [p EXCEPT !.wallet = result.called]
                      IN  IF ~result.accepted
                          THEN payment_error(w, "ERR_PAYMENT_REJECTED")
                          ELSE [w EXCEPT !.record =
                                           <<[satoshis_paid |->
                                                result_satoshis_paid(result, request.price),
                                              accepted |-> TRUE]>>,
                                         !.view = TRUE]

\* __call__ of the complete middleware
complete_call(request, created) ==
    IF request.price_raises
    THEN Error([Outcome0 EXCEPT !.priced = TRUE], 500, "ERR_PAYMENT_INTERNAL")
    ELSE LET o == [Outcome0 EXCEPT !.priced = TRUE]
         IN  IF request.price <= 0 THEN [o EXCEPT !.view = TRUE]
             ELSE IF request.auth = "absent"
             THEN payment_error(o, "ERR_AUTHENTICATION_REQUIRED")
             ELSE IF request.auth \in {"no_key", Unknown}
             THEN payment_error(o, "ERR_AUTHENTICATION_REQUIRED")
             ELSE IF request.header = Absent
             THEN complete_request_payment(o, request, created)
             ELSE complete_verify_payment(o, request)

(***************************************************************************)
(* A request reaches a payment middleware.                                 *)
(***************************************************************************)
NoRequest == [mw |-> None]
\* the nonce that a request presents: derivationPrefix for the library
\* middleware, nonce for the complete one
PresentedNonce(request) ==
    IF request.header \in {Absent, NotJson} THEN None
    ELSE IF request.mw = "library" THEN request.header.derivationPrefix
    ELSE request.header.nonce

\* the request repeats the request that was answered last, that answer was
\* a 402 challenge, and its envelope carries what the challenge issued: the
\* derivation prefix and, for the complete middleware, the nonce of the body
Retries(prev, request) ==
    /\ prev.req # NoRequest
    /\ prev.req.header = Absent
    /\ prev.out.status = 402 /\ prev.out.code = "ERR_PAYMENT_REQUIRED"
    /\ request.mw = prev.req.mw /\ request.path = prev.req.path
    /\ request.auth = prev.req.auth /\ request.price = prev.req.price
    /\ request.header.kind = "json"
    /\ request.header.beef # None
    /\ request.header.derivationPrefix = prev.out.prefix
    /\ request.mw = "complete" => request.header.nonce = prev.out.nonce

Handle(request, o) ==
    /\ o.wallet => wallet_calls < MaxWalletCalls
    /\ handled' = [req |-> request, out |-> o, retry |-> Retries(handled, request)]
    /\ issued_nonces' = IF o.nonce # None THEN issued_nonces \cup {o.nonce}
                        ELSE issued_nonces
    /\ accepted_nonces' = IF o.view /\ request.price > 0
                          THEN accepted_nonces \cup {PresentedNonce(request)}
                          ELSE accepted_nonces
    /\ wallet_calls' = IF o.wallet THEN wallet_calls + 1 ELSE wallet_calls
    /\ UNCHANGED <<registryVars, listenerVars, peerApi, last, threadVars,
                   continuationVars, require_auth, payment_settings, dispatchVars, sessionVars>>

\* what create_nonce returns for a request that is answered with 402: 128
\* random bits, taken as a value that was not returned before
CreatedNonces(request) ==
    IF request.header = Absent /\ request.price > 0
    THEN NonceSpace \ issued_nonces ELSE {"n1"}

\* the middleware chain is built before the first request is served: no
\* construction is still to come
Loaded == \A mw \in Middlewares : payment_settings[mw] # "pending"

LibraryCall ==
    \E request \in PaymentRequests :
      \E created \in CreatedNonces(request) :
        /\ Loaded
        /\ payment_settings.library = "constructed"
        /\ request.mw = "library"
        /\ Handle(request, process_payment(require_auth, request, created))

CompleteCall ==
    \E request \in PaymentRequests :
      \E created \in CreatedNonces(request) :
        /\ Loaded
        /\ payment_settings.complete = "constructed"
        /\ request.mw = "complete"
        /\ Handle(request, complete_call(request, created))

(***************************************************************************)
(* Construction of the payment middlewares: BSVPaymentMiddleware.__init__  *)
(* of the library (_load_configuration, _initialize_components) and of the *)
(* complete middleware (_validate_configuration).                          *)
(***************************************************************************)
\* BSV_MIDDLEWARE['WALLET']: not set, an object without internalize_action,
\* or a wallet
WalletSettings == {None, "no_internalize_action", "wallet"}
\* BSV_MIDDLEWARE['CALCULATE_REQUEST_PRICE']: not set, a value that is not
\* callable, or a function
PriceSettings == {None, "not_callable", "callable"}

\* variant that does not look for internalize_action
load_configuration_any_wallet(wallet, price) ==
    IF wallet = None THEN "raised"
    ELSE LET calculate_request_price == IF price = None THEN "callable" ELSE price
         IN  IF calculate_request_price # "callable" THEN "raised"
             ELSE "constructed"

\* the library's __init__: a price function that is not set becomes
\* lambda request: 100
load_configuration(wallet, price) ==
    IF wallet = None THEN "raised"
    ELSE LET calculate_request_price == IF price = None THEN "callable" ELSE price
         IN  IF calculate_request_price # "callable" THEN "raised"
             ELSE IF wallet # "wallet" THEN "raised"
             ELSE "constructed"

\* the complete middleware's __init__: calculate_request_price or
\* self._default_price_calculator, then _validate_configuration
validate_configuration(wallet, price) ==
    LET calculate_request_price == IF price = None THEN "callable" ELSE price
    IN  IF calculate_request_price # "callable" THEN "raised"
        ELSE IF wallet = None \/ wallet # "wallet" THEN "raised"
        ELSE "constructed"

\* both middlewares constructed with a wallet and a price function
Constructed == [wallet |-> "wallet", price |-> "callable",
                library |-> "constructed", complete |-> "constructed"]

ConstructLibrary ==
    /\ payment_settings.library = "pending"
    /\ payment_settings' =
          [payment_settings EXCEPT
             !.library = load_configuration(payment_settings.wallet,
                                            payment_settings.price)]
    /\ UNCHANGED <<registryVars, listenerVars, peerApi, last, threadVars,
                   continuationVars, require_auth, issued_nonces,
                   accepted_nonces, wallet_calls, handled, dispatchVars, sessionVars>>

ConstructComplete ==
    /\ payment_settings.complete = "pending"
    /\ payment_settings' =
          [payment_settings EXCEPT
             !.complete = validate_configuration(payment_settings.wallet,
                                                 payment_settings.price)]
    /\ UNCHANGED <<registryVars, listenerVars, peerApi, last, threadVars,
                   continuationVars, require_auth, issued_nonces,
                   accepted_nonces, wallet_calls, handled, dispatchVars, sessionVars>>

\* the payment middleware is configured with REQUIRE_AUTH, True when unset
InitPayment ==
    /\ require_auth = TRUE
    /\ payment_settings = Constructed
    /\ issued_nonces = {}
    /\ accepted_nonces = {}
    /\ wallet_calls = 0
    /\ handled = [req |-> NoRequest, out |-> Outcome0, retry |-> FALSE]

(***************************************************************************)
(* The transport after construction (DjangoTransport.__init__), with a     *)
(* Peer set and its on_data callback registered.                           *)
(***************************************************************************)
InitTransport ==
    /\ open_non_general_handles = EmptyMap
    /\ open_general_handles = EmptyMap
    /\ response = EmptyMap
    /\ handleIdentity = EmptyMap
    /\ nextHandle = 1
    /\ on_certificates_received = FALSE
    /\ certificate_listener_ids = EmptyMap
    /\ active_certificate_listeners = EmptyMap
    /\ current_listener_id = NoListener
    /\ peerApi \in PeerApis
    /\ peerCertListeners = EmptyMap
    /\ peerStopped = {}
    /\ appCallbackCalls = 0
    /\ last = Outcome("other", None)
    /\ pc = [t \in Threads |-> "idle"]
    /\ sendLocal = [t \in Threads |-> IdleSend]
    /\ listenLocal = [t \in Threads |-> IdleListen]
    /\ generalLocal = [t \in Threads |-> IdleGeneral]

\* request.session without a BSV session; the clock at its start
InitSession ==
    /\ session = EmptyMap
    /\ now = 0

\* allow_unauthenticated = False; set_peer and on_data have been called
InitPeer ==
    /\ allow_unauthenticated = FALSE
    /\ peer_set = TRUE
    /\ message_callback = TRUE

\* open_next_handlers = {}; deliveries are not noted
InitContinuation ==
    /\ open_next_handlers = EmptyMap
    /\ note_deliveries = FALSE
    /\ note_requests = FALSE


Init ==
    /\ InitTransport
    /\ InitPeer
    /\ InitSession
    /\ InitContinuation
    /\ InitPayment

Next ==
    \/ WellKnownAuthBadBody
    \/ WellKnownAuth
    \/ GeneralRequest
    \/ HeaderRequest
    \/ SendNonGeneral
    \/ SendGeneral
    \/ SendInitialResponse
    \/ SendUntyped
    \/ CertificatesReceived
    \/ CertificatesReceivedHandshake

Spec == Init /\ [][Next]_vars

(***************************************************************************)
(* Certificate deliveries on both paths: the handshake endpoint and the    *)
(* header requests register listeners, the Peer delivers, each delivery    *)
(* noted.                                                                  *)
(***************************************************************************)
InitDelivery ==
    /\ InitTransport
    /\ InitPeer
    /\ InitSession
    /\ open_next_handlers = EmptyMap
    /\ note_deliveries = TRUE
    /\ note_requests = FALSE
    /\ InitPayment

NextDelivery ==
    \/ WellKnownAuth
    \/ HeaderRequest
    \/ CertificatesReceived
    \/ CertificatesReceivedHandshake

SpecDelivery == InitDelivery /\ [][NextDelivery]_vars

(***************************************************************************)
(* Certificate deliveries to the header-path listeners with an application *)
(* that queues continuations: the authenticated requests that register     *)
(* listeners, the application's queueing and the Peer's deliveries, each   *)
(* delivery noted.                                                         *)
(***************************************************************************)
NextContinuation ==
    \/ GeneralRequest
    \/ HeaderRequest
    \/ QueueNextHandler
    \/ CertificatesReceived

SpecContinuation == InitDelivery /\ [][NextContinuation]_vars

(***************************************************************************)
(* The payment middlewares serving requests, with either setting of        *)
(* REQUIRE_AUTH.                                                           *)
(***************************************************************************)
InitPayments ==
    /\ InitTransport
    /\ peerApi = "snake"
    /\ InitPeer
    /\ InitSession
    /\ InitContinuation
    /\ require_auth \in BOOLEAN
    /\ payment_settings = Constructed
    /\ issued_nonces = {}
    /\ accepted_nonces = {}
    /\ wallet_calls = 0
    /\ handled = [req |-> NoRequest, out |-> Outcome0, retry |-> FALSE]

NextPayments ==
    \/ LibraryCall
    \/ CompleteCall

SpecPayments == InitPayments /\ [][NextPayments]_vars

\* Django settings with any WALLET and CALCULATE_REQUEST_PRICE, before the
\* middlewares are constructed
InitConfiguration ==
    /\ InitTransport
    /\ peerApi = "snake"
    /\ InitPeer
    /\ InitSession
    /\ InitContinuation
    /\ require_auth \in BOOLEAN
    /\ \E wallet \in WalletSettings, price \in PriceSettings :
          payment_settings = [wallet |-> wallet, price |-> price,
                              library |-> "pending", complete |-> "pending"]
    /\ issued_nonces = {}
    /\ accepted_nonces = {}
    /\ wallet_calls = 0
    /\ handled = [req |-> NoRequest, out |-> Outcome0, retry |-> FALSE]

NextConfiguration ==
    \/ ConstructLibrary
    \/ ConstructComplete
    \/ LibraryCall
    \/ CompleteCall

SpecConfiguration == InitConfiguration /\ [][NextConfiguration]_vars

(***************************************************************************)
(* DjangoTransport.handle_incoming_request for a request to a path other   *)
(* than the handshake endpoint, from its headers on, by a transport that   *)
(* is given its Peer (set_peer) and the Peer's callback (on_data) after    *)
(* construction.                                                           *)
(***************************************************************************)
\* the request: whether one of x-bsv-auth-version, -message-type and -nonce
\* is present, the x-bsv-auth-identity-key header (absent, a key, or hex that
\* PublicKey rejects), the x-bsv-auth-request-id header, and request.auth as
\* the request carries it when it reaches the transport: not set, or the
\* 'unknown' AuthInfo that an earlier pass through the transport has set
IncomingRequests ==
    {r \in [other_headers : BOOLEAN, identity_key_hex : {None, "A", "bad"},
             request_id : {None} \cup Keys, auth : {"absent", Unknown}] :
        \* rejected hex next to other headers is as no identity key next to them
        r.identity_key_hex = "bad" => ~r.other_headers}

\* _convert_http_to_auth_message: << >> for None, else the AuthMessage
convert_http_to_auth_message(request) ==
    IF ~request.other_headers /\ request.identity_key_hex = None THEN << >>
    ELSE <<[identity_key |-> IF request.identity_key_hex \in Identities
                             THEN request.identity_key_hex ELSE None]>>

\* variant that answers 401 to every request without auth headers
handle_unauthenticated_request_denies(allow, auth) ==
    [result |-> "401", auth |-> auth]

\* _handle_unauthenticated_request
handle_unauthenticated_request(allow, auth) ==
    IF allow
    THEN [result |-> "continue", auth |-> IF auth = "absent" THEN Unknown ELSE auth]
    ELSE [result |-> "401", auth |-> auth]

\* _convert_peer_result_to_http from the session check on; authenticated |->
\* whether peer.get_authenticated_session returns an authenticated session
convert_peer_result_to_http(allow, identity_key, authenticated, auth) ==
    IF identity_key # None /\ authenticated
    THEN [result |-> "continue", auth |-> identity_key]
    ELSE IF allow
    THEN [result |-> "continue", auth |-> Unknown]
    ELSE [result |-> "401", auth |-> auth]

\* variant that continues whatever request.auth is
general_message_result_always_continues(auth, identity_key, verified) ==
    [result |-> "continue", auth |-> IF verified THEN identity_key ELSE auth]

\* variant that tests hasattr(request, 'auth') only
general_message_result_any_auth(auth, identity_key, verified) ==
    LET after == IF verified THEN identity_key ELSE auth
    IN  [result |-> IF after # "absent" THEN "continue" ELSE "401",
         auth |-> after]

\* _handle_general_message after message_callback: general_message_callback
\* has set request.auth to the sender the Peer verified, or was not called
general_message_result(auth, identity_key, verified) ==
    LET after == IF verified THEN identity_key ELSE auth
    IN  [result |-> IF after # "absent" /\ after # Unknown
                    THEN "continue" ELSE "401",
         auth |-> after]

\* what the Peer does when message_callback is not registered: nothing
NoCallback(general) ==
    [kind |-> IF general THEN "rejected" ELSE "error", msg |-> NoMessage]

\* _handle_request_via_peer for a path other than /.well-known/bsv/auth
handle_request_via_peer(request, onCert, has_session, act, authenticated) ==
    LET m == convert_http_to_auth_message(request)
        idle == [ng |-> open_non_general_handles, gen |-> open_general_handles,
                 resp |-> response, hid |-> handleIdentity,
                 ids |-> certificate_listener_ids, peer |-> peerCertListeners,
                 listened |-> FALSE, registered |-> FALSE, peer_calls |-> 0]
    IN  IF m = << >>
        THEN LET u == handle_unauthenticated_request(allow_unauthenticated,
                                                     request.auth)
             IN  idle @@ [route |-> "unauthenticated", result |-> u.result,
                          auth |-> u.auth]
        ELSE IF request.request_id # None
        THEN LET g == general_request(request.request_id, m[1].identity_key,
                          onCert, has_session,
                          IF message_callback THEN act ELSE NoCallback(TRUE))
                 called == g.registered /\ message_callback
                 a == general_message_result(request.auth, m[1].identity_key,
                          called /\ act.kind \in {"verified", "verified+send"})
             IN  [ng |-> g.ng, gen |-> g.gen, resp |-> g.resp, hid |-> g.hid,
                  ids |-> g.ids, peer |-> g.peer, listened |-> g.listened,
                  registered |-> g.registered,
                  peer_calls |-> IF called THEN 1 ELSE 0,
                  route |-> "general",
                  result |-> IF ~g.registered THEN "500" ELSE a.result,
                  auth |-> IF ~g.registered THEN request.auth ELSE a.auth]
        ELSE LET h == header_request(m[1].identity_key, onCert, has_session,
                          IF message_callback THEN act ELSE NoCallback(FALSE))
                 c == convert_peer_result_to_http(allow_unauthenticated,
                          m[1].identity_key, authenticated, request.auth)
                 checked == h.result = "session_check"
             IN  [ng |-> h.ng, gen |-> h.gen, resp |-> h.resp,
                  hid |-> handleIdentity,
                  ids |-> h.ids, peer |-> h.peer, listened |-> h.listened,
                  registered |-> FALSE,
                  peer_calls |-> IF message_callback THEN 1 ELSE 0,
                  route |-> "non_general",
                  result |-> IF checked THEN c.result ELSE h.result,
                  auth |-> IF checked THEN c.auth ELSE request.auth]

\* what peer.get_authenticated_session answers where the transport asks it
AuthenticatedAnswers(request) ==
    IF /\ request.request_id = None
       /\ request.identity_key_hex \in Identities
    THEN BOOLEAN ELSE {FALSE}

\* what the Peer can do with the message of a request
PeerActs(request) ==
    IF convert_http_to_auth_message(request) = << >> \/ ~message_callback
    THEN {NoCallback(FALSE)}
    ELSE IF request.request_id # None THEN GeneralPeerActs
    ELSE HandshakePeerActs

\* handle_incoming_request with a Peer set
IncomingRequest ==
    \E request \in IncomingRequests, cb \in CallbackArgs :
      LET m == convert_http_to_auth_message(request)
          identityKey == IF m = << >> THEN None ELSE m[1].identity_key
          onCert == on_certificates_received \/ cb
      IN  \E has_session \in HeaderSessionAnswers(identityKey, cb),
             act \in PeerActs(request),
             authenticated \in AuthenticatedAnswers(request) :
            \E r \in {handle_request_via_peer(request, onCert, has_session, act,
                                               authenticated)} :
                /\ peer_set
                /\ r.registered => nextHandle <= MaxHandles
                /\ r.listened => ListenersLeft
                /\ nextHandle' = IF r.registered THEN nextHandle + 1 ELSE nextHandle
                /\ Commit(r.ng, r.gen, r.resp, r.hid, r.peer, peerStopped)
                /\ on_certificates_received' = onCert
                /\ certificate_listener_ids' = r.ids
                /\ last' = [op |-> "incoming", request |-> request,
                            route |-> r.route, result |-> r.result,
                            auth |-> r.auth, peer_calls |-> r.peer_calls,
                            verified |-> /\ r.peer_calls = 1
                                         /\ act.kind \in {"verified", "verified+send"},
                            authenticated |-> authenticated,
                            peer_error |-> /\ r.peer_calls = 1
                                           /\ act.kind \in {"error", "rejected"},
                            build_failed |-> r.route = "general" /\ ~r.registered,
                            opened |-> r.registered \/ r.listened,
                            raised |-> FALSE]
                /\ UNCHANGED <<active_certificate_listeners, current_listener_id,
                               appCallbackCalls, peerApi, threadVars,
                               continuationVars, paymentVars, dispatchVars, sessionVars>>

\* handle_incoming_request without a Peer: BSVAuthException is raised, and
\* raised again by the except clause
IncomingRequestNoPeer ==
    \E request \in IncomingRequests :
        /\ ~peer_set
        /\ last' = [op |-> "incoming", request |-> request, route |-> None,
                    result |-> None, auth |-> request.auth, peer_calls |-> 0,
                    verified |-> FALSE, authenticated |-> FALSE,
                    peer_error |-> FALSE, build_failed |-> FALSE,
                    opened |-> FALSE, raised |-> TRUE]
        /\ UNCHANGED <<registryVars, listenerVars, peerApi, threadVars,
                       continuationVars, paymentVars, dispatchVars, sessionVars>>

\* DjangoTransport.set_peer
SetPeer ==
    /\ ~peer_set
    /\ peer_set' = TRUE
    /\ last' = Outcome("set_peer", None)
    /\ UNCHANGED <<registryVars, listenerVars, peerApi, threadVars,
                   continuationVars, paymentVars, allow_unauthenticated,
                   message_callback, sessionVars>>

\* DjangoTransport.on_data
OnData ==
    /\ ~message_callback
    /\ message_callback' = TRUE
    /\ last' = Outcome("on_data", None)
    /\ UNCHANGED <<registryVars, listenerVars, peerApi, threadVars,
                   continuationVars, paymentVars, allow_unauthenticated,
                   peer_set, sessionVars>>

\* DjangoTransport.__init__ with either allow_unauthenticated
InitIncoming ==
    /\ InitTransport
    /\ peerApi = "snake"
    /\ allow_unauthenticated \in BOOLEAN
    /\ peer_set = FALSE
    /\ message_callback = FALSE
    /\ InitSession
    /\ InitContinuation
    /\ InitPayment

NextIncoming ==
    \/ SetPeer
    \/ OnData
    \/ IncomingRequest
    \/ IncomingRequestNoPeer

SpecIncoming == InitIncoming /\ [][NextIncoming]_vars

(***************************************************************************)
(* DjangoTransport._send_non_general_message, statement by statement, run  *)
(* by two threads for the same your_nonce.  "handles" of a thread is the   *)
(* list object that the registry holds under the nonce: a pop by one       *)
(* thread is seen by the other.                                            *)
(***************************************************************************)
\* the list object registered under the nonce; empty once its key is deleted
RaceList == IF RaceNonce \in DOMAIN open_non_general_handles
            THEN open_non_general_handles[RaceNonce] ELSE << >>

SendReturn(t, result) ==
    /\ Goto(t, "done")
    /\ sendLocal' = [sendLocal EXCEPT ![t].result = result]

raceFrame == <<open_general_handles, handleIdentity, nextHandle, listenerVars,
               peerApi, last, listenLocal, generalLocal, continuationVars,
               paymentVars, dispatchVars, sessionVars>>

\* handles = self.open_non_general_handles.get(your_nonce, []); if not handles
SendGet(t) ==
    /\ pc[t] = "get"
    /\ IF RaceList = << >>
       THEN SendReturn(t, "NoOpenHandle")
       ELSE Goto(t, "head") /\ UNCHANGED sendLocal
    /\ UNCHANGED <<open_non_general_handles, response, raceFrame>>

\* handle = handles[0]: IndexError when the other thread emptied the list
SendHead(t) ==
    /\ pc[t] = "head"
    /\ IF RaceList = << >>
       THEN SendReturn(t, "SendFailed")
       ELSE /\ Goto(t, "headers")
            /\ sendLocal' = [sendLocal EXCEPT ![t].handle = Head(RaceList)]
    /\ UNCHANGED <<open_non_general_handles, response, raceFrame>>

\* response[header] = value for the auth headers
SendHeaders(t) ==
    /\ pc[t] = "headers"
    /\ response' = [response EXCEPT ![sendLocal[t].handle].headers = "auth"]
    /\ Goto(t, "log")
    /\ UNCHANGED <<open_non_general_handles, sendLocal, raceFrame>>

\* the log call reads message.messageType
SendLog(t) ==
    /\ pc[t] = "log"
    /\ IF sendLocal[t].style = "camel"
       THEN Goto(t, "content") /\ UNCHANGED sendLocal
       ELSE SendReturn(t, "SendFailed")
    /\ UNCHANGED <<open_non_general_handles, response, raceFrame>>

\* response.content = json.dumps(message_dict)
SendContent(t) ==
    /\ pc[t] = "content"
    /\ response' = [response EXCEPT ![sendLocal[t].handle].content = "auth_json"]
    /\ sendLocal' = [sendLocal EXCEPT ![t].wrote = sendLocal[t].handle]
    /\ Goto(t, "pop")
    /\ UNCHANGED <<open_non_general_handles, raceFrame>>

\* handles.pop(0): IndexError when the list is empty
SendPop(t) ==
    /\ pc[t] = "pop"
    /\ IF RaceList = << >>
       THEN SendReturn(t, "SendFailed") /\ UNCHANGED open_non_general_handles
       ELSE /\ open_non_general_handles' =
                  [open_non_general_handles EXCEPT ![RaceNonce] = Tail(@)]
            /\ sendLocal' = [sendLocal EXCEPT ![t].popped = Head(RaceList)]
            /\ Goto(t, "del")
    /\ UNCHANGED <<response, raceFrame>>

\* if not handles: del self.open_non_general_handles[your_nonce]; return None
\* KeyError when the other thread deleted the key
SendDel(t) ==
    /\ pc[t] = "del"
    /\ IF RaceList # << >>
       THEN SendReturn(t, "ok") /\ UNCHANGED open_non_general_handles
       ELSE IF RaceNonce \in DOMAIN open_non_general_handles
       THEN /\ open_non_general_handles' = Remove(open_non_general_handles, RaceNonce)
            /\ SendReturn(t, "ok")
       ELSE SendReturn(t, "SendFailed") /\ UNCHANGED open_non_general_handles
    /\ UNCHANGED <<response, raceFrame>>

\* n handshake requests registered handles 1..n under the nonce; both threads
\* have entered _send_non_general_message with a message that carries it
InitSendRace ==
    \E n \in 1..MaxHandles :
        /\ open_non_general_handles = [k \in {RaceNonce} |-> [i \in 1..n |-> i]]
        /\ open_general_handles = EmptyMap
        /\ response = [h \in 1..n |-> FreshResponse]
        /\ handleIdentity = [h \in 1..n |-> None]
        /\ nextHandle = n + 1
        /\ on_certificates_received = FALSE
        /\ certificate_listener_ids = EmptyMap
        /\ active_certificate_listeners = EmptyMap
        /\ current_listener_id = NoListener
        /\ peerApi = "snake"
        /\ peerCertListeners = EmptyMap
        /\ peerStopped = {}
        /\ appCallbackCalls = 0
        /\ last = Outcome("other", None)
        /\ pc = [t \in Threads |-> "get"]
        /\ sendLocal \in [Threads -> {[IdleSend EXCEPT !.style = st] :
                                        st \in MessageStyles}]
        /\ listenLocal = [t \in Threads |-> IdleListen]
        /\ generalLocal = [t \in Threads |-> IdleGeneral]
        /\ InitPeer
        /\ InitSession
        /\ InitContinuation
        /\ InitPayment

NextSendRace ==
    \E t \in Threads :
        \/ SendGet(t)
        \/ SendHead(t)
        \/ SendHeaders(t)
        \/ SendLog(t)
        \/ SendContent(t)
        \/ SendPop(t)
        \/ SendDel(t)

SpecSendRace == InitSendRace /\ [][NextSendRace]_vars

(***************************************************************************)
(* DjangoTransport._handle_request_via_peer, step 2.5, statement by        *)
(* statement, run by two request threads: the session question, the        *)
(* membership test, the registration with the Peer and the store of the    *)
(* listener id are separate statements.                                    *)
(***************************************************************************)
listenFrame == <<registryVars, on_certificates_received,
                 active_certificate_listeners, current_listener_id, peerStopped,
                 appCallbackCalls, peerApi, last, sendLocal, generalLocal,
                 continuationVars,
                 paymentVars, dispatchVars, sessionVars>>

\* has_session = self.peer.session_manager.has_session(identity_key)
ListenSession(t) ==
    /\ pc[t] = "session"
    /\ \E has_session \in BOOLEAN :
          /\ Goto(t, IF has_session THEN "done" ELSE "check")
          /\ listenLocal' = [listenLocal EXCEPT ![t].has_session = has_session]
    /\ UNCHANGED <<certificate_listener_ids, peerCertListeners, listenFrame>>

\* if identity_key not in self._certificate_listener_ids
ListenCheck(t) ==
    /\ pc[t] = "check"
    /\ Goto(t, IF listenLocal[t].identity_key \notin DOMAIN certificate_listener_ids
               THEN "register" ELSE "done")
    /\ UNCHANGED <<certificate_listener_ids, peerCertListeners, listenLocal,
                   listenFrame>>

\* listener_id = self._register_certificate_listener(identity_key)
ListenRegister(t) ==
    /\ pc[t] = "register"
    /\ LET r == register_certificate_listener(peerCertListeners, peerApi,
                                              listenLocal[t].identity_key)
       IN  /\ peerCertListeners' = r.peer
           /\ listenLocal' = [listenLocal EXCEPT ![t].listener_id = r.listener_id]
    /\ Goto(t, "store")
    /\ UNCHANGED <<certificate_listener_ids, listenFrame>>

\* if listener_id is not None:
\*     self._certificate_listener_ids[identity_key] = listener_id
ListenStore(t) ==
    /\ pc[t] = "store"
    /\ certificate_listener_ids' =
          IF listenLocal[t].listener_id # NoListener
          THEN Put(certificate_listener_ids, listenLocal[t].identity_key,
                   listenLocal[t].listener_id)
          ELSE certificate_listener_ids
    /\ Goto(t, "done")
    /\ UNCHANGED <<peerCertListeners, listenLocal, listenFrame>>

\* two requests with identity keys and a configured callback have reached
\* step 2.5; no listener is registered yet
InitListenRace ==
    /\ open_non_general_handles = EmptyMap
    /\ open_general_handles = EmptyMap
    /\ response = EmptyMap
    /\ handleIdentity = EmptyMap
    /\ nextHandle = 1
    /\ on_certificates_received = TRUE
    /\ certificate_listener_ids = EmptyMap
    /\ active_certificate_listeners = EmptyMap
    /\ current_listener_id = NoListener
    /\ peerApi \in PeerApis
    /\ peerCertListeners = EmptyMap
    /\ peerStopped = {}
    /\ appCallbackCalls = 0
    /\ last = Outcome("other", None)
    /\ pc = [t \in Threads |-> "session"]
    /\ sendLocal = [t \in Threads |-> IdleSend]
    /\ listenLocal \in [Threads -> {[IdleListen EXCEPT !.identity_key = k] :
                                      k \in Identities}]
    /\ generalLocal = [t \in Threads |-> IdleGeneral]
    /\ InitPeer
    /\ InitSession
    /\ InitContinuation
    /\ InitPayment

NextListenRace ==
    \E t \in Threads :
        \/ ListenSession(t)
        \/ ListenCheck(t)
        \/ ListenRegister(t)
        \/ ListenStore(t)

SpecListenRace == InitListenRace /\ [][NextListenRace]_vars

(***************************************************************************)
(* Properties.                                                             *)
(***************************************************************************)
AllMessages ==
    NonGeneralMessages \cup GeneralMessages \cup InitialResponses \cup UntypedMessages

\* the handles that are open in a registry
OpenHandles(ng, gen) ==
    UNION {SeqToSet(ng[k]) : k \in DOMAIN ng} \cup {gen[k] : k \in DOMAIN gen}

\* the listeners the Peer holds for an identity
ListenersOf(identity_key) ==
    {l \in ActiveListeners(peerCertListeners, peerStopped) :
        peerCertListeners[l].identity_key = identity_key}

RECURSIVE SendTimes(_, _, _, _)
\* n successive sends of msg: the handles they resolved and their results
SendTimes(ng, resp, msg, n) ==
    IF n = 0
    THEN [handles |-> << >>, results |-> << >>]
    ELSE LET s == send(ng, open_general_handles, resp, msg)
             rest == SendTimes(s.ng, s.resp, msg, n - 1)
         IN  [handles |-> <<s.handle>> \o rest.handles,
              results |-> <<s.result>> \o rest.results]

\* C1: with N handles open under a nonce k, N successive non-general sends
\* that carry k resolve the handles oldest first, and one more such send
\* fails with "no open handle".
C1_FifoResolution ==
    \A msg \in NonGeneralMessages :
        msg.your_nonce \in DOMAIN open_non_general_handles =>
            LET hs == open_non_general_handles[msg.your_nonce]
                r == SendTimes(open_non_general_handles, response, msg, Len(hs) + 1)
            IN  /\ SubSeq(r.handles, 1, Len(hs)) = hs
                /\ r.results[Len(hs) + 1] = "NoOpenHandle"

\* C2: while a general handle is open under request id k, the first general
\* send whose payload starts with k's bytes succeeds, writes to the response
\* of that handle and of no other, and closes it; a second send for k fails
\* with "no open handle" and changes nothing.
C2_GeneralResolvesOnce ==
    \A k \in DOMAIN open_general_handles, msg \in GeneralMessages :
        ( /\ Len(msg.payload) >= RequestIdLen
          /\ b64encode(SubSeq(msg.payload, 1, RequestIdLen)) = k ) =>
            LET h == open_general_handles[k]
                s1 == send(open_non_general_handles, open_general_handles,
                           response, msg)
                s2 == send(s1.ng, s1.gen, s1.resp, msg)
            IN  /\ s1.result = "ok" /\ s1.handle = h
                /\ s1.resp[h].headers = "auth+request-id"
                /\ \A g \in (DOMAIN response) \ {h} : s1.resp[g] = response[g]
                /\ k \notin DOMAIN s1.gen
                /\ s2.result = "NoOpenHandle"
                /\ s2.gen = s1.gen /\ s2.resp = s1.resp

\* a general send has just resolved the handle that was open under k1
C2_Witness ==
    /\ last = [op |-> "send_general", result |-> "ok"]
    /\ "k1" \notin DOMAIN open_general_handles

\* C3: a request never replaces the general handle that is open under its
\* request id: a handle that stays registered under k is the one that was.
C3_DuplicateGeneralRejected ==
    [][\A k \in DOMAIN open_general_handles :
          k \in DOMAIN open_general_handles' =>
              open_general_handles'[k] = open_general_handles[k]]_vars

\* C4: send returns success only for a message whose handle was open before
\* the call and is closed after it, whatever the message type.
C4_SuccessConsumesHandle ==
    \A msg \in AllMessages :
        LET s == send(open_non_general_handles, open_general_handles, response, msg)
        IN  s.result = "ok" =>
                /\ s.handle \in OpenHandles(open_non_general_handles,
                                            open_general_handles)
                /\ s.handle \notin OpenHandles(s.ng, s.gen)

\* C5: of two threads that send for the same nonce, no two write the response
\* of one handle, and when both have returned the number of handles removed
\* is the number of sends that succeeded.
C5_NoDoubleResolution ==
    /\ \A t, u \in Threads :
          (t # u /\ sendLocal[t].wrote # 0) => sendLocal[u].wrote # sendLocal[t].wrote
    /\ AllDone =>
          Cardinality({t \in Threads : sendLocal[t].result = "ok"})
              = Cardinality(DOMAIN response) - Len(RaceList)

\* C6: the handle that a request registered is open in no registry when the
\* handling of that request has returned.
C6_NoHandleLeftOpen ==
    [][nextHandle' = nextHandle + 1 =>
          nextHandle \notin OpenHandles(open_non_general_handles',
                                        open_general_handles')]_vars

\* C7: the Peer holds at most one certificate listener per identity key.
C7_OneListenerPerIdentity ==
    \A K \in Identities : Cardinality(ListenersOf(K)) <= 1

\* C8: when two threads without session have run the listener registration
\* for the same identity key, the Peer holds exactly one listener for it and
\* _certificate_listener_ids records that listener.
C8_ExactlyOneListener ==
    \A K \in Identities :
        ( /\ AllDone
          /\ \A t \in Threads : /\ listenLocal[t].identity_key = K
                                /\ ~listenLocal[t].has_session ) =>
            /\ Cardinality(ListenersOf(K)) = 1
            /\ K \in DOMAIN certificate_listener_ids
            /\ ListenersOf(K) = {certificate_listener_ids[K]}

C11_ContinuationRunsOnce ==
    \A K \in DOMAIN open_next_handlers : open_next_handlers[K].runs = 0

\* C12: when the identity a listener was registered for delivers an empty
\* certificate list, the registration is removed from its map and stopped
\* at the Peer, neither the continuation nor the application callback is
\* invoked, and the error payload is written to the response of the handle.
C12_EmptyListTearsDown ==
    (last.op = "delivery" /\ last.certs = "empty") =>
        /\ last.unregistered
        /\ last.stopped
        /\ ~last.ran
        /\ ~last.called
        /\ last.error_written

\* C13: when the application callback raises during a valid delivery, the
\* cleanup of the listener still completes (its registration is removed and
\* the listener is stopped at the Peer) and no exception leaves the
\* certificate callback.
C13_CallbackErrorContained ==
    ( /\ last.op = "delivery"
      /\ last.certs = "some"
      /\ last.called /\ last.app_raises ) =>
        /\ last.unregistered
        /\ last.stopped
        /\ ~last.raised

\* the application callback has raised in a valid delivery to a listener of
\* the header path, and the listener is gone
C13_Witness ==
    /\ last.op = "delivery" /\ last.kind = "register"
    /\ last.certs = "some"
    /\ last.called /\ last.app_raises
    /\ last.unregistered /\ last.stopped
    /\ peerStopped # {}

\* the request that a payment middleware handled last and what it did
Req == handled.req
Out == handled.out
Served == handled.req # NoRequest
Priced == Served /\ ~Req.price_raises /\ Req.price > 0
\* request.auth carries an identity key
Identified(auth) == auth \notin {"absent", "no_key", Unknown, None}

\* C14: a request whose price is 0 proceeds to the view with the payment
\* record satoshis_paid = 0, accepted = true attached, whatever its
\* x-bsv-payment header, and the wallet is not called.
C14_FreeRequestProceeds ==
    (Served /\ Identified(Req.auth) /\ ~Req.price_raises /\ Req.price = 0) =>
        /\ Out.view
        /\ Out.record = <<[satoshis_paid |-> 0, accepted |-> TRUE]>>
        /\ ~Out.wallet

\* C15: the price is calculated for every request, whatever its
\* authentication state, and a request whose price is 0 proceeds also when
\* it is unauthenticated.
C15_PriceBeforeAuth ==
    Served =>
        /\ Out.priced
        /\ (~Req.price_raises /\ Req.price = 0) => Out.view

C17_WrongPrefixRejected ==
    ( /\ Priced /\ Identified(Req.auth)
      /\ Req.header.kind = "json"
      /\ \A field \in {"nonce", "derivationPrefix", "beef"} :
            Req.header[field] # None
      /\ verify_nonce(Req.header.nonce)
      /\ Req.header.derivationPrefix # get_derivation_prefix(Req.path, Req.auth) ) =>
        /\ Out.code = "ERR_INVALID_DERIVATION_PREFIX"
        /\ Out.status = 400
        /\ ~Out.wallet
        /\ ~Out.view

C19_AuthBeforePayment ==
    ( /\ Priced /\ ~Identified(Req.auth)
      /\ Req.mw = "library" => require_auth ) =>
        /\ ~Out.parsed
        /\ ~Out.wallet

\* C20: after an envelope with nonce n was verified and accepted, a later
\* priced request that presents n is answered with 400 and the wallet is
\* not called again.
C20_NonceSingleUse ==
    [][LET r == handled'.req
           o == handled'.out
       IN  ( /\ ~r.price_raises /\ r.price > 0 /\ Identified(r.auth)
             /\ r.header.kind = "json"
             /\ PresentedNonce(r) \in accepted_nonces ) =>
              /\ o.status = 400
              /\ wallet_calls' = wallet_calls]_vars

C22_PrefixDeterministic ==
    [][LET r == handled.req
           q == handled'.req
       IN  ( /\ r # NoRequest
             /\ handled.out.status = 402 /\ handled'.out.status = 402
             /\ handled.out.prefix # None /\ handled'.out.prefix # None
             /\ q.mw = r.mw /\ q.path = r.path /\ q.auth = r.auth
             /\ Identified(q.auth) ) =>
               handled'.out.prefix = handled.out.prefix]_vars

\* the request that the transport dispatched last
Incoming == last.op = "incoming"
NoAuthHeaders(request) ==
    /\ ~request.other_headers
    /\ request.identity_key_hex = None
    /\ request.request_id = None

C24_RequestIdIsGeneral ==
    (Incoming /\ peer_set) =>
        /\ last.request.request_id # None => last.route = "general"
        /\ NoAuthHeaders(last.request) => last.route = "unauthenticated"

\* the responses that report an error
ErrorResults == {"400", "401", "500"}
\* the Peer's callback returned an error, or the message could not be built
Failed == last.peer_error \/ last.build_failed

EmptyText == "empty"
HeaderSets ==
    [version : {None, "0.1", "1.0"},
     message_type : {None, "initial", "initialRequest", "general"},
     identity_key : {None, "A", "bad"},
     nonce : {None, "n1"},
     your_nonce : {None, "n2"},
     signature : {None, "sig"},
     requested_certificates : {None, "rc"}]

\* request.headers.get(name, ''): '' when the header is absent
headers_get(value) == IF value = None THEN EmptyText ELSE value

\* PublicKey(identity_key_hex); the except clause leaves identity_key = None
PublicKey(identity_key_hex) ==
    IF identity_key_hex \in Identities THEN identity_key_hex ELSE "NoneObject"

\* DjangoTransport._convert_http_to_auth_message, all its fields: << >> is
\* the None it returns
auth_message_of_headers(H) ==
    LET version == headers_get(H.version)
        message_type == headers_get(H.message_type)
        identity_key_hex == headers_get(H.identity_key)
        nonce == headers_get(H.nonce)
    IN  IF /\ version = EmptyText /\ message_type = EmptyText
           /\ identity_key_hex = EmptyText /\ nonce = EmptyText
        THEN << >>
        ELSE <<[version |-> IF version \in {EmptyText, "1.0"} THEN "0.1" ELSE version,
                message_type |-> IF message_type \in {EmptyText, "initial"}
                                 THEN "initialRequest" ELSE message_type,
                identity_key |-> IF identity_key_hex = EmptyText THEN "NoneObject"
                                 ELSE PublicKey(identity_key_hex),
                nonce |-> nonce,
                initial_nonce |-> nonce]>>

\* str(value) of an attribute of the message
py_str(value) == IF value = "NoneObject" THEN "None" ELSE value

\* DjangoTransport._build_auth_response_headers for a message whose
\* attributes carry the names of the given style: hasattr(message,
\* 'messageType') and hasattr(message, 'identityKey') hold of the camelCase
\* style only; the message of _convert_http_to_auth_message was given no
\* yourNonce, signature or requestedCertificates
build_auth_response_headers(message, style) ==
    [version |-> py_str(message.version),
     message_type |-> IF style = "camel" THEN py_str(message.message_type) ELSE None,
     identity_key |-> IF style = "camel" THEN py_str(message.identity_key) ELSE None,
     nonce |-> py_str(message.nonce),
     your_nonce |-> None,
     signature |-> None,
     requested_certificates |-> None]

\* the headers of a request arrive and are decoded
DecodeHeaders ==
    /\ last.op = "headers"
    /\ last' = [op |-> "decoded", H |-> last.H, style |-> last.style,
                message |-> auth_message_of_headers(last.H)]
    /\ UNCHANGED <<registryVars, listenerVars, peerApi, threadVars,
                   continuationVars, paymentVars, dispatchVars, sessionVars>>

\* the decoded message is encoded into response headers
EncodeMessage ==
    /\ last.op = "decoded"
    /\ last.message # << >>
    /\ last' = [op |-> "encoded", H |-> last.H, style |-> last.style,
                message |-> last.message,
                headers |-> build_auth_response_headers(last.message[1], last.style)]
    /\ UNCHANGED <<registryVars, listenerVars, peerApi, threadVars,
                   continuationVars, paymentVars, dispatchVars, sessionVars>>

\* a transport with a Peer and a set of request headers to decode
InitCodec ==
    /\ open_non_general_handles = EmptyMap
    /\ open_general_handles = EmptyMap
    /\ response = EmptyMap
    /\ handleIdentity = EmptyMap
    /\ nextHandle = 1
    /\ on_certificates_received = FALSE
    /\ certificate_listener_ids = EmptyMap
    /\ active_certificate_listeners = EmptyMap
    /\ current_listener_id = NoListener
    /\ peerApi = "snake"
    /\ peerCertListeners = EmptyMap
    /\ peerStopped = {}
    /\ appCallbackCalls = 0
    /\ \E H \in HeaderSets, style \in MessageStyles :
            last = [op |-> "headers", H |-> H, style |-> style]
    /\ pc = [t \in Threads |-> "idle"]
    /\ sendLocal = [t \in Threads |-> IdleSend]
    /\ listenLocal = [t \in Threads |-> IdleListen]
    /\ generalLocal = [t \in Threads |-> IdleGeneral]
    /\ InitPeer
    /\ InitSession
    /\ InitContinuation
    /\ InitPayment

NextCodec ==
    \/ DecodeHeaders
    \/ EncodeMessage

SpecCodec == InitCodec /\ [][NextCodec]_vars

\* the headers BRC-104 requires of a request are present and the identity
\* key is a public key
ValidHeaders(H) ==
    /\ H.version # None /\ H.message_type # None
    /\ H.identity_key \in Identities /\ H.nonce # None

\* C25: for every valid set H of x-bsv-auth-* request headers, encoding the
\* message that H decodes to yields exactly H: the same headers with the
\* same values and no other header.
C25_CodecRoundTrip ==
    (last.op = "encoded" /\ ValidHeaders(last.H)) => last.headers = last.H

\* a valid set of headers that the codec gives back unchanged
CodecRoundTripReached ==
    last.op = "encoded" /\ ValidHeaders(last.H) /\ last.headers = last.H

(***************************************************************************)
(* General requests register handles and the Peer answers them through    *)
(* DjangoTransport.send, each send noted.                                  *)
(***************************************************************************)
NextGeneralSend ==
    \/ GeneralRequest
    \/ SendGeneral

SpecGeneralSend == InitDelivery /\ [][NextGeneralSend]_vars

\* the bytes after the request id are statusCode, headerCount 0, bodyLen and
\* bodyLen bytes of body, each length one byte
MatchesFraming(payload) ==
    /\ Len(payload) >= RequestIdLen + 3
    /\ payload[RequestIdLen + 2] = 0
    /\ Len(payload) = RequestIdLen + 3 + payload[RequestIdLen + 3]

\* C26: a general send whose payload does not match the wire framing fails
\* with an error, and the handle registered for its request id stays open
\* and its response unmodified.
C26_MalformedPayloadFails ==
    [][(/\ last'.op = "send"
        /\ ~MatchesFraming(last'.message.payload))
       => /\ last'.result # "ok"
          /\ open_general_handles' = open_general_handles
          /\ response' = response]_vars

MaxTime == 2
\* max_age_seconds of an expiry sweep
MaxAges == {0, 1}
\* auth_data: a dict, taken as the set of its keys
AuthData == {{}, {"a"}}
\* f"{self._bsv_session_prefix}{identity_key}"
session_key(identity_key) == <<"bsv_auth_", identity_key>>
\* a key of the Django session that is not a BSV session
ForeignKey == <<"", "_auth_user_id">>
\* key.startswith(self._bsv_session_prefix)
startswith_prefix(key) == key[1] = "bsv_auth_"

\* DjangoSessionManager.has_session
has_session(sess, identity_key) == session_key(identity_key) \in DOMAIN sess

\* DjangoSessionManager.create_session
create_session(sess, identity_key, auth_data, time) ==
    Put(sess, session_key(identity_key),
        [identity_key |-> identity_key, created_at |-> time,
         auth_data |-> auth_data, updated_at |-> None])

\* variant that creates the session it was asked to update
update_session_creates(sess, identity_key, auth_data, time) ==
    LET k == session_key(identity_key)
    IN  IF k \in DOMAIN sess
        THEN [sess EXCEPT ![k].auth_data = @ \cup auth_data,
                          ![k].updated_at = time]
        ELSE create_session(sess, identity_key, auth_data, time)

\* DjangoSessionManager.update_session
update_session(sess, identity_key, auth_data, time) ==
    LET k == session_key(identity_key)
    IN  IF k \in DOMAIN sess
        THEN [sess EXCEPT ![k].auth_data = @ \cup auth_data,
                          ![k].updated_at = time]
        ELSE sess

\* DjangoSessionManager.delete_session
delete_session(sess, identity_key) ==
    IF session_key(identity_key) \in DOMAIN sess
    THEN Remove(sess, session_key(identity_key))
    ELSE sess

\* DjangoSessionManager.cleanup_expired_sessions
\* variant that does not test the prefix of a key
cleanup_expired_sessions_any_key(sess, max_age_seconds, time) ==
    LET expired_sessions ==
          {key \in DOMAIN sess :
              time - sess[key].created_at > max_age_seconds}
    IN  [session |-> [key \in DOMAIN sess \ expired_sessions |-> sess[key]],
         returned |-> Cardinality(expired_sessions)]

cleanup_expired_sessions(sess, max_age_seconds, time) ==
    LET expired_sessions ==
          {key \in DOMAIN sess :
              /\ startswith_prefix(key)
              /\ time - sess[key].created_at > max_age_seconds}
    IN  [session |-> [key \in DOMAIN sess \ expired_sessions |-> sess[key]],
         returned |-> Cardinality(expired_sessions)]

SessionFrame ==
    UNCHANGED <<registryVars, listenerVars, peerApi, threadVars,
                continuationVars, paymentVars, dispatchVars, now>>

CreateSession ==
    \E identity_key \in Identities, auth_data \in AuthData :
        /\ session' = create_session(session, identity_key, auth_data, now)
        /\ last' = [op |-> "create_session", identity_key |-> identity_key]
        /\ SessionFrame

UpdateSession ==
    \E identity_key \in Identities, auth_data \in AuthData :
        /\ session' = update_session(session, identity_key, auth_data, now)
        /\ last' = [op |-> "update_session", identity_key |-> identity_key]
        /\ SessionFrame

DeleteSession ==
    \E identity_key \in Identities :
        /\ session' = delete_session(session, identity_key)
        /\ last' = [op |-> "delete_session", identity_key |-> identity_key]
        /\ SessionFrame

CleanupExpiredSessions ==
    \E max_age_seconds \in MaxAges :
        /\ session' = cleanup_expired_sessions(session, max_age_seconds, now).session
        /\ last' = [op |-> "cleanup_expired_sessions", identity_key |-> None,
                    max_age_seconds |-> max_age_seconds,
                    returned |-> cleanup_expired_sessions(session, max_age_seconds,
                                                          now).returned]
        /\ SessionFrame

\* time passes
Tick ==
    /\ now < MaxTime
    /\ now' = now + 1
    /\ last' = [op |-> "tick", identity_key |-> None]
    /\ UNCHANGED <<registryVars, listenerVars, peerApi, threadVars,
                   continuationVars, paymentVars, dispatchVars, session>>

\* a Django session that holds a key of its own, or none
InitSessions ==
    /\ InitTransport
    /\ peerApi = "snake"
    /\ InitPeer
    /\ session \in {EmptyMap,
                    [k \in {ForeignKey} |->
                       [identity_key |-> None, created_at |-> 0,
                        auth_data |-> {}, updated_at |-> None]]}
    /\ now = 0
    /\ InitContinuation
    /\ InitPayment

NextSessions ==
    \/ CreateSession
    \/ UpdateSession
    \/ DeleteSession
    \/ CleanupExpiredSessions
    \/ Tick

SpecSessions == InitSessions /\ [][NextSessions]_vars

\* C30: after create_session(k), has_session(k) is true, and it stays true
\* across every operation other than delete_session(k) and an expiry sweep;
\* after delete_session(k), has_session(k) is false; update_session on a key
\* with no session, and delete_session on a key with no session, leave the
\* store unchanged.
C30_SessionStore ==
    [][\A k \in Identities :
         /\ (last'.op = "create_session" /\ last'.identity_key = k)
               => has_session(session', k)
         /\ (has_session(session, k) /\ ~has_session(session', k))
               => \/ last'.op = "delete_session" /\ last'.identity_key = k
                  \/ last'.op = "cleanup_expired_sessions"
         /\ (last'.op = "delete_session" /\ last'.identity_key = k)
               => ~has_session(session', k)
         /\ ( /\ last'.op \in {"update_session", "delete_session"}
              /\ last'.identity_key = k
              /\ ~has_session(session, k) )
               => session' = session]_vars

\* an update of a key with no session, while another key has one
C30_Witness ==
    /\ last.op = "update_session"
    /\ ~has_session(session, last.identity_key)
    /\ \E k \in Identities : has_session(session, k)

\* C31: cleanup_expired_sessions(max_age) removes exactly the BSV sessions
\* whose age now - created_at is greater than max_age, returns the number it
\* removed, and leaves every younger BSV session and every key that is not a
\* BSV session as it was.
C31_SweepRemovesExpired ==
    [][last'.op = "cleanup_expired_sessions" =>
         LET removed == DOMAIN session \ DOMAIN session'
         IN  /\ DOMAIN session' \subseteq DOMAIN session
             /\ removed = {key \in DOMAIN session :
                             /\ key[1] = "bsv_auth_"
                             /\ now - session[key].created_at > last'.max_age_seconds}
             /\ last'.returned = Cardinality(removed)
             /\ \A key \in DOMAIN session' : session'[key] = session[key]]_vars

\* a sweep that removed a BSV session and kept a younger one next to a key
\* that is not a BSV session
C31_Witness ==
    /\ last.op = "cleanup_expired_sessions"
    /\ last.returned = 1
    /\ ForeignKey \in DOMAIN session
    /\ \E k \in Identities : has_session(session, k)

(***************************************************************************)
(* The view decorators of bsv_middleware/django/utils.py.  A request       *)
(* carries request.auth as the auth middleware leaves it, request.bsv_auth *)
(* as an application sets it, and request.bsv_payment as the payment       *)
(* middleware sets it.                                                     *)
(***************************************************************************)
\* request.auth: not set, None, an object without identity_key, or an
\* AuthInfo whose identity_key is None, 'unknown' or a key
ViewAuths == {"absent", "falsy", "no_key", None, Unknown, "A"}
\* request.bsv_auth: not set, None, or an object with authenticated and
\* identity_key
ViewBsvAuths ==
    {[set |-> s, authenticated |-> FALSE, identity_key |-> None] :
        s \in {"absent", "falsy"}}
    \cup [set : {"object"}, authenticated : BOOLEAN, identity_key : {None, "A"}]
\* request.bsv_payment: not set, None, or a PaymentInfo
ViewPayments ==
    {[set |-> s, accepted |-> FALSE, satoshis_paid |-> 0] :
        s \in {"absent", "falsy"}}
    \cup [set : {"object"}, accepted : BOOLEAN, satoshis_paid : {0, 50, 100}]
ViewRequests == [auth : ViewAuths, bsv_auth : ViewBsvAuths, bsv_payment : ViewPayments]
\* required_satoshis of the decorator
RequiredSatoshis == {0, 100}

\* is_authenticated_request
is_authenticated_request(request) ==
    IF request.bsv_auth.set = "object"
    THEN request.bsv_auth.authenticated /\ request.bsv_auth.identity_key # None
    ELSE IF request.auth \notin {"absent", "falsy", "no_key"}
    THEN request.auth # None /\ request.auth # Unknown
    ELSE FALSE

\* is_payment_processed
is_payment_processed(request) ==
    IF request.bsv_payment.set = "object"
    THEN request.bsv_payment.accepted /\ request.bsv_payment.satoshis_paid > 0
    ELSE FALSE

\* get_request_payment_info: << >> is None
get_request_payment_info(request) ==
    IF request.bsv_payment.set = "object" THEN <<request.bsv_payment>> ELSE << >>

\* variant that checks the payment before the authentication
bsv_payment_required_payment_first(required_satoshis, request) ==
    LET payment_info == get_request_payment_info(request)
    IN  IF \/ ~is_payment_processed(request)
           \/ (payment_info # << >> /\ payment_info[1].satoshis_paid < required_satoshis)
        THEN [status |-> 402, view |-> FALSE]
        ELSE IF ~is_authenticated_request(request)
        THEN [status |-> 401, view |-> FALSE]
        ELSE [status |-> 200, view |-> TRUE]

\* the wrapper of bsv_payment_required(required_satoshis); the view answers
\* 200
bsv_payment_required(required_satoshis, request) ==
    IF ~is_authenticated_request(request)
    THEN [status |-> 401, view |-> FALSE]
    ELSE LET payment_info == get_request_payment_info(request)
         IN  IF \/ ~is_payment_processed(request)
                \/ (payment_info # << >> /\ payment_info[1].satoshis_paid < required_satoshis)
             THEN [status |-> 402, view |-> FALSE]
             ELSE [status |-> 200, view |-> TRUE]

\* a request reaches the wrapped view
CallWrappedView ==
    /\ last.op = "view_request"
    /\ last' = [op |-> "view_response", request |-> last.request,
                required_satoshis |-> last.required_satoshis,
                response |-> bsv_payment_required(last.required_satoshis,
                                                  last.request)]
    /\ UNCHANGED <<registryVars, listenerVars, peerApi, threadVars,
                   continuationVars, paymentVars, dispatchVars, sessionVars>>

\* a view wrapped by bsv_payment_required and a request on its way to it
InitViews ==
    /\ open_non_general_handles = EmptyMap
    /\ open_general_handles = EmptyMap
    /\ response = EmptyMap
    /\ handleIdentity = EmptyMap
    /\ nextHandle = 1
    /\ on_certificates_received = FALSE
    /\ certificate_listener_ids = EmptyMap
    /\ active_certificate_listeners = EmptyMap
    /\ current_listener_id = NoListener
    /\ peerApi = "snake"
    /\ peerCertListeners = EmptyMap
    /\ peerStopped = {}
    /\ appCallbackCalls = 0
    /\ \E request \in ViewRequests, required_satoshis \in RequiredSatoshis :
            last = [op |-> "view_request", request |-> request,
                    required_satoshis |-> required_satoshis]
    /\ pc = [t \in Threads |-> "idle"]
    /\ sendLocal = [t \in Threads |-> IdleSend]
    /\ listenLocal = [t \in Threads |-> IdleListen]
    /\ generalLocal = [t \in Threads |-> IdleGeneral]
    /\ InitPeer
    /\ InitSession
    /\ InitContinuation
    /\ InitPayment

NextViews == CallWrappedView

SpecViews == InitViews /\ [][NextViews]_vars

\* the request has an identity key that is not 'unknown'
ViewAuthenticated(request) ==
    IF request.bsv_auth.set = "object"
    THEN request.bsv_auth.authenticated /\ request.bsv_auth.identity_key = "A"
    ELSE request.auth = "A"

NonceForms == {"hex", "alnum", "other"}
\* secrets.token_hex(16)
token_hex_16 == [len |-> 32, form |-> "hex", origin |-> "token_hex"]
\* hashlib.sha256(...).hexdigest()[:32]
sha256_hex_32 == [len |-> 32, form |-> "hex", origin |-> "sha256"]
\* what a wallet's own create_nonce may return: a hex string, a base64
\* string of 32 bytes, a short token
WalletNonces ==
    {[len |-> 32, form |-> "hex", origin |-> "wallet"],
     [len |-> 44, form |-> "other", origin |-> "wallet"],
     [len |-> 8, form |-> "alnum", origin |-> "wallet"]}
\* strings a caller hands to verify_nonce
CallerNonces ==
    {[len |-> 0, form |-> "hex", origin |-> "caller"]}
    \cup [len : {5, 7, 15, 16, 32}, form : NonceForms, origin : {"caller"}]
\* the wallet argument: None, or an object with or without create_nonce,
\* verify_nonce and get_public_key (which answers or raises)
NonceWallets ==
    {[set |-> "falsy", create_nonce |-> FALSE, verify_nonce |-> FALSE,
      get_public_key |-> "absent"]}
    \cup [set : {"object"}, create_nonce : BOOLEAN, verify_nonce : BOOLEAN,
          get_public_key : {"absent", "answers", "raises"}]
\* PySdkBridge.__init__ builds a Peer when py-sdk is available; the Peer's
\* constructor returns or raises
PeerInits == {"ok", "raises"}
NonceEntries == {"module", "bridge"}

\* int(nonce, 16) parses
int_16(nonce) == nonce.len > 0 /\ nonce.form = "hex"
\* nonce.replace('-', '').replace('_', '').isalnum()
isalnum_stripped(nonce) == nonce.len > 0 /\ nonce.form \in {"hex", "alnum"}
\* wallet.verify_nonce(nonce): a wallet recognises the nonces it created;
\* for the others it answers as it likes
wallet_verify_nonce(nonce, wallet_answer) ==
    IF nonce.origin = "wallet" THEN TRUE ELSE wallet_answer

\* PySdkBridge.create_nonce
PySdkBridge_create_nonce(sdk, wallet, wallet_nonce) ==
    IF sdk /\ wallet.set = "object" /\ wallet.create_nonce
    THEN wallet_nonce
    ELSE IF sdk /\ wallet.set = "object" /\ wallet.get_public_key = "answers"
    THEN sha256_hex_32
    ELSE token_hex_16

\* PySdkBridge.verify_nonce
PySdkBridge_verify_nonce(sdk, wallet, nonce, wallet_answer) ==
    IF nonce.len = 0
    THEN FALSE
    ELSE IF nonce.len < 16
    THEN FALSE
    ELSE IF sdk /\ wallet.set = "object" /\ wallet.verify_nonce
    THEN wallet_verify_nonce(nonce, wallet_answer)
    ELSE IF /\ sdk /\ wallet.set = "object" /\ wallet.get_public_key # "absent"
            /\ nonce.len \in {32, 64} /\ nonce.form = "hex"
    THEN TRUE
    ELSE IF int_16(nonce)
    THEN TRUE
    ELSE isalnum_stripped(nonce)

\* the module's create_nonce(wallet)
module_create_nonce(sdk, wallet, peer_init, wallet_nonce) ==
    IF wallet.set = "object"
    THEN IF sdk /\ peer_init = "raises"
         THEN token_hex_16
         ELSE PySdkBridge_create_nonce(sdk, wallet, wallet_nonce)
    ELSE token_hex_16

\* the module's verify_nonce(nonce, wallet)
module_verify_nonce(sdk, wallet, peer_init, nonce, wallet_answer) ==
    IF wallet.set = "object"
    THEN IF sdk /\ peer_init = "raises"
         THEN FALSE
         ELSE PySdkBridge_verify_nonce(sdk, wallet, nonce, wallet_answer)
    ELSE IF nonce.len = 0 \/ nonce.len < 16
    THEN FALSE
    ELSE IF int_16(nonce)
    THEN TRUE
    ELSE isalnum_stripped(nonce)

\* create_nonce is called, of the module or of a bridge
CreateNonce ==
    /\ last.op = "nonce_request"
    /\ last' = [op |-> "nonce_created", request |-> last.request,
                nonce |-> IF last.request.entry = "module"
                          THEN module_create_nonce(last.request.sdk, last.request.wallet,
                                            last.request.peer_init,
                                            last.request.wallet_nonce)
                          ELSE PySdkBridge_create_nonce(last.request.sdk,
                                                   last.request.wallet,
                                                   last.request.wallet_nonce)]
    /\ UNCHANGED <<registryVars, listenerVars, peerApi, threadVars,
                   continuationVars, paymentVars, dispatchVars, sessionVars>>

\* the nonce just created is handed to the corresponding verify_nonce
VerifyCreatedNonce ==
    /\ last.op = "nonce_created"
    /\ last' = [op |-> "nonce_verified", request |-> last.request,
                nonce |-> last.nonce,
                accepted |-> IF last.request.entry = "module"
                             THEN module_verify_nonce(last.request.sdk, last.request.wallet,
                                               last.request.peer_init, last.nonce,
                                               last.request.wallet_answer)
                             ELSE PySdkBridge_verify_nonce(last.request.sdk,
                                                      last.request.wallet,
                                                      last.nonce,
                                                      last.request.wallet_answer)]
    /\ UNCHANGED <<registryVars, listenerVars, peerApi, threadVars,
                   continuationVars, paymentVars, dispatchVars, sessionVars>>

\* verify_nonce is called with a string of the caller
VerifyCallerNonce ==
    /\ last.op = "nonce_request"
    /\ last' = [op |-> "nonce_verified", request |-> last.request,
                nonce |-> last.request.candidate,
                accepted |-> IF last.request.entry = "module"
                             THEN module_verify_nonce(last.request.sdk, last.request.wallet,
                                               last.request.peer_init,
                                               last.request.candidate,
                                               last.request.wallet_answer)
                             ELSE PySdkBridge_verify_nonce(last.request.sdk,
                                                      last.request.wallet,
                                                      last.request.candidate,
                                                      last.request.wallet_answer)]
    /\ UNCHANGED <<registryVars, listenerVars, peerApi, threadVars,
                   continuationVars, paymentVars, dispatchVars, sessionVars>>

\* a caller about to use the nonce functions; a bridge exists only if its
\* constructor returned
InitNonces ==
    /\ open_non_general_handles = EmptyMap
    /\ open_general_handles = EmptyMap
    /\ response = EmptyMap
    /\ handleIdentity = EmptyMap
    /\ nextHandle = 1
    /\ on_certificates_received = FALSE
    /\ certificate_listener_ids = EmptyMap
    /\ active_certificate_listeners = EmptyMap
    /\ current_listener_id = NoListener
    /\ peerApi = "snake"
    /\ peerCertListeners = EmptyMap
    /\ peerStopped = {}
    /\ appCallbackCalls = 0
    /\ \E sdk \in BOOLEAN, wallet \in NonceWallets, peer_init \in PeerInits,
          wallet_nonce \in WalletNonces, wallet_answer \in BOOLEAN,
          candidate \in CallerNonces, entry \in NonceEntries :
            /\ entry = "bridge" => (~sdk \/ peer_init = "ok")
            /\ last = [op |-> "nonce_request",
                       request |-> [sdk |-> sdk, wallet |-> wallet,
                                    peer_init |-> peer_init,
                                    wallet_nonce |-> wallet_nonce,
                                    wallet_answer |-> wallet_answer,
                                    candidate |-> candidate, entry |-> entry]]
    /\ pc = [t \in Threads |-> "idle"]
    /\ sendLocal = [t \in Threads |-> IdleSend]
    /\ listenLocal = [t \in Threads |-> IdleListen]
    /\ generalLocal = [t \in Threads |-> IdleGeneral]
    /\ InitPeer
    /\ InitSession
    /\ InitContinuation
    /\ InitPayment

NextNonces == CreateNonce \/ VerifyCreatedNonce \/ VerifyCallerNonce

SpecNonces == InitNonces /\ [][NextNonces]_vars

\* C33: every nonce produced by create_nonce (of the module, with or
\* without a wallet, and of the bridge) is accepted by the corresponding
\* verify_nonce, and verify_nonce rejects the empty string and every string
\* shorter than 16 characters.
C33_NonceRoundTrip ==
    last.op = "nonce_verified" =>
        /\ last.nonce.origin # "caller" => last.accepted
        /\ last.nonce.len < 16 => ~last.accepted

\* a nonce made by the bridge from the wallet's public key was accepted
NonceRoundTripReached ==
    /\ last.op = "nonce_verified"
    /\ last.nonce = sha256_hex_32
    /\ last.accepted

(***************************************************************************)
(* Requests on the three paths of handle_incoming_request that reach the   *)
(* Peer (handshake endpoint, general, header-based non-general), each      *)
(* request noted.                                                          *)
(***************************************************************************)
InitDispatch ==
    /\ InitTransport
    /\ InitPeer
    /\ InitSession
    /\ open_next_handlers = EmptyMap
    /\ note_deliveries = FALSE
    /\ note_requests = TRUE
    /\ InitPayment

NextDispatch ==
    \/ WellKnownAuth
    \/ GeneralRequest
    \/ HeaderRequest

SpecDispatch == InitDispatch /\ [][NextDispatch]_vars

\* the request that was handled last, if it was handed to the Peer
Dispatched(path) ==
    last.op = "request" /\ last.path = path /\ last.dispatched

\* C34: for every request that the transport dispatches to the Peer's
\* message callback, a handle for that request is in the registry when the
\* callback is called; on the handshake-endpoint path, the general path and
\* the header-based non-general path.
C34_HandleRegisteredBeforeDispatch ==
    \A path \in {"handshake", "general", "header"} :
        Dispatched(path) => (last.handle # 0 /\ last.registered)

\* the handshake-endpoint path and the general path register before they
\* dispatch
DispatchRegisteredReached ==
    /\ Dispatched("general")
    /\ last.handle # 0 /\ last.registered

\* the handshake request handled last was answered by the Peer through a
\* non-general send that succeeded on the request's own handle
AnsweredBySend ==
    /\ Dispatched("handshake")
    /\ last.act.kind = "send"
    /\ last.act.msg \in NonGeneralMessages
    /\ last.sendResult = "ok"
    /\ last.consumed = last.handle

\* C35: when the Peer answers a handshake request by a successful
\* non-general send during the dispatch, the HTTP response that
\* handle_incoming_request returns for that request is the handle's response
\* as populated by that send (its auth headers and body), not a separately
\* built response.
C35_HandshakeReturnsHandleResponse ==
    AnsweredBySend => last.returned = last.handle_response

\* the send wrote the auth headers and the message to the response of the
\* request's handle
HandleResponsePopulated ==
    /\ AnsweredBySend
    /\ last.handle_response.headers = "auth"
    /\ last.handle_response.content = "auth_json"

\* the key the claim names for a handshake request: the x-bsv-auth-request-id
\* header when present, else the initialNonce of the body
ClaimedKey(src) == IF src[1] # None THEN src[1] ELSE src[2]

\* the Peer answered the handshake request handled last by a non-general send
RepliedBySend ==
    /\ Dispatched("handshake")
    /\ last.act.kind = "send"
    /\ last.act.msg \in NonGeneralMessages

\* C36: the handle of a handshake request is registered under the value of
\* the x-bsv-auth-request-id header when that header is present, and
\* otherwise under the initialNonce of the request body; a non-general send
\* resolves by the message's your_nonce, so a reply resolves the request's
\* handle exactly when its your_nonce equals that registration key.
C36_HandshakeKey ==
    (last.op = "request" /\ last.path = "handshake") =>
        /\ ClaimedKey(last.src) # None =>
              last.registered_under = {ClaimedKey(last.src)}
        /\ RepliedBySend =>
              (last.consumed = last.handle
                  <=> last.act.msg.your_nonce \in last.registered_under)

\* a reply whose your_nonce is the header value resolved the handle of a
\* request that carried both the header and an initialNonce
HeaderKeyResolved ==
    /\ RepliedBySend
    /\ last.src[1] # None /\ last.src[2] # None
    /\ last.registered_under = {last.src[1]}
    /\ last.act.msg.your_nonce = last.src[1]
    /\ last.consumed = last.handle

\* the checks of payment verification, as the envelope of the request
\* handled last passes them
EnvelopeParses ==
    /\ Req.header.kind = "json"
    /\ \A field \in {"nonce", "derivationPrefix", "beef"} : Req.header[field] # None
NonceValid == verify_nonce(Req.header.nonce)
PrefixMatches ==
    Req.header.derivationPrefix = get_derivation_prefix(Req.path, Req.auth)
\* a priced request of an identified client that carries an x-bsv-payment
\* header
Verifying == Priced /\ Identified(Req.auth) /\ Req.header # Absent

\* C37: payment verification applies its checks in the fixed order parse
\* envelope, nonce, derivation prefix, wallet: the first failing check alone
\* determines the error (malformed payment 400, invalid nonce 400, invalid
\* derivation prefix 400, rejected 402), and the wallet's internalize-action
\* is called only when the three earlier checks all passed.
C37_VerificationOrder ==
    Verifying =>
        /\ ~EnvelopeParses =>
              /\ Out.status = 400 /\ Out.code = "ERR_MALFORMED_PAYMENT"
        /\ (EnvelopeParses /\ ~NonceValid) =>
              /\ Out.status = 400
              /\ Out.code \notin {"ERR_MALFORMED_PAYMENT",
                                  "ERR_INVALID_DERIVATION_PREFIX"}
        /\ (EnvelopeParses /\ NonceValid /\ ~PrefixMatches) =>
              /\ Out.status = 400 /\ Out.code = "ERR_INVALID_DERIVATION_PREFIX"
        /\ (EnvelopeParses /\ NonceValid /\ PrefixMatches
              /\ Req.wallet \in {"rejected", "raises"}) =>
              /\ Out.status = 402 /\ Out.code = "ERR_PAYMENT_REJECTED"
        /\ Out.wallet => (EnvelopeParses /\ NonceValid /\ PrefixMatches)

\* the example middleware stopped at the nonce check: the envelope carried
\* a malformed nonce and a wrong prefix, and the answer names the nonce
NonceCheckFirstReached ==
    /\ Verifying /\ Req.mw = "complete"
    /\ EnvelopeParses /\ ~NonceValid
    /\ Out.code = "ERR_INVALID_PAYMENT" /\ ~Out.wallet

(***************************************************************************)
(* Two request threads in DjangoTransport._handle_general_message.  Each   *)
(* registers a general_message_callback, a closure over its own request,   *)
(* with the Peer (_setup_general_message_listener); no statement of the    *)
(* transport stops a general listener.  The Peer knows a listener only as  *)
(* callback(sender_public_key, payload): when it has verified a general    *)
(* message it calls the listeners it holds.                                *)
(***************************************************************************)
\* the request id of the requests of the race
RaceRequestId == "k1"

generalFrame == <<open_non_general_handles, listenerVars, peerApi, last, sendLocal,
                  listenLocal, continuationVars, paymentVars, dispatchVars,
                  sessionVars>>

\* general_message_callback(sender_public_key, payload):
\* request.auth = AuthInfo(identity_key=identity_key_hex)
general_message_callback(local, sender_public_key) ==
    [local EXCEPT !.auth = sender_public_key]

\* listener_id = self._setup_general_message_listener(request, response,
\* auth_message): the handle is stored and the callback registered
GeneralSetup(t) ==
    /\ pc[t] = "setup"
    /\ nextHandle <= MaxHandles
    /\ LET h == nextHandle
       IN  /\ Commit(open_non_general_handles,
                     setup_general_message_listener(open_general_handles,
                                                    RaceRequestId, h),
                     Put(response, h, FreshResponse),
                     Put(handleIdentity, h, None),
                     peerCertListeners, peerStopped)
           /\ nextHandle' = h + 1
    /\ generalLocal' = [generalLocal EXCEPT ![t].listening = TRUE]
    /\ Goto(t, "dispatch")
    /\ UNCHANGED <<on_certificates_received, certificate_listener_ids,
                   active_certificate_listeners, current_listener_id,
                   appCallbackCalls, peerApi, last, sendLocal, listenLocal,
                   continuationVars, paymentVars, dispatchVars, sessionVars>>

\* result = self.message_callback(None, auth_message): the Peer verifies the
\* message of the request or rejects it; after a verification it calls the
\* general listeners
GeneralDispatch(t) ==
    /\ pc[t] = "dispatch"
    /\ \E verified \in BOOLEAN :
          generalLocal' =
              [u \in Threads |->
                  LET own == IF u = t
                             THEN [generalLocal[u] EXCEPT !.verified = verified]
                             ELSE generalLocal[u]
                  IN  IF verified /\ generalLocal[u].listening
                      THEN general_message_callback(own, generalLocal[t].identity_key)
                      ELSE own]
    /\ Goto(t, "check")
    /\ UNCHANGED <<registryVars, generalFrame>>

\* if hasattr(request, 'auth') and request.auth.identity_key != 'unknown':
\* return None, else the 401 response
GeneralCheck(t) ==
    /\ pc[t] = "check"
    /\ generalLocal' =
          [generalLocal EXCEPT ![t].result =
              IF generalLocal[t].auth # "absent" /\ generalLocal[t].auth # Unknown
              THEN "continue" ELSE "401"]
    /\ Goto(t, "done")
    /\ UNCHANGED <<registryVars, generalFrame>>

\* two general requests, each signed by a client, have reached
\* _handle_general_message
InitGeneralRace ==
    /\ open_non_general_handles = EmptyMap
    /\ open_general_handles = EmptyMap
    /\ response = EmptyMap
    /\ handleIdentity = EmptyMap
    /\ nextHandle = 1
    /\ on_certificates_received = FALSE
    /\ certificate_listener_ids = EmptyMap
    /\ active_certificate_listeners = EmptyMap
    /\ current_listener_id = NoListener
    /\ peerApi \in PeerApis
    /\ peerCertListeners = EmptyMap
    /\ peerStopped = {}
    /\ appCallbackCalls = 0
    /\ last = Outcome("other", None)
    /\ pc = [t \in Threads |-> "setup"]
    /\ sendLocal = [t \in Threads |-> IdleSend]
    /\ listenLocal = [t \in Threads |-> IdleListen]
    /\ generalLocal \in [Threads -> {[IdleGeneral EXCEPT !.identity_key = k] :
                                       k \in Identities}]
    /\ InitPeer
    /\ InitSession
    /\ InitContinuation
    /\ InitPayment

NextGeneralRace ==
    \E t \in Threads : GeneralSetup(t) \/ GeneralDispatch(t) \/ GeneralCheck(t)

SpecGeneralRace == InitGeneralRace /\ [][NextGeneralRace]_vars

\* C38: when general requests are handled concurrently, a general request A
\* continues as authenticated with identity K only if the Peer verified A's
\* own message as sent by K: the Peer verifying another request's message
\* while A is in flight never sets A's request.auth.
C38_OwnVerificationOnly ==
    \A t \in Threads :
        generalLocal[t].result = "continue" =>
            /\ generalLocal[t].verified
            /\ generalLocal[t].auth = generalLocal[t].identity_key

\* a request whose own message the Peer verified continues with the
\* identity of its sender
OwnVerificationReached ==
    \E t \in Threads :
        /\ generalLocal[t].result = "continue"
        /\ generalLocal[t].verified
        /\ generalLocal[t].auth = generalLocal[t].identity_key

(***************************************************************************)
(* Requests register handles and the Peer calls DjangoTransport.send with  *)
(* messages of every kind, each send noted.                                *)
(***************************************************************************)
NextSends ==
    \/ WellKnownAuth
    \/ GeneralRequest
    \/ SendNonGeneral
    \/ SendGeneral
    \/ SendInitialResponse
    \/ SendUntyped

\* the transport with a py-sdk Peer
InitSends == InitDelivery /\ peerApi = "snake"

SpecSends == InitSends /\ [][NextSends]_vars

\* the message cannot be sent with the registries as they are: it has no
\* message_type, it is non-general and has no your_nonce or no handle is
\* open under its your_nonce, or it is general and its payload is shorter
\* than 32 bytes or no handle is open under its request id
CannotBeSent(msg) ==
    \/ msg.message_type = None
    \/ /\ msg.message_type \notin {None, "general", "initialResponse"}
       /\ \/ msg.your_nonce = None
          \/ msg.your_nonce \notin DOMAIN open_non_general_handles
    \/ /\ msg.message_type = "general"
       /\ \/ Len(msg.payload) < RequestIdLen
          \/ b64encode(SubSeq(msg.payload, 1, RequestIdLen))
                \notin DOMAIN open_general_handles

\* C39: a send that fails (message without message_type, non-general
\* message without your_nonce, no open handle for the key, handle without a
\* response object, general payload shorter than 32 bytes) returns an error
\* value and leaves both handle registries exactly as they were before the
\* call.  Every handle the transport registers has a response object.
C39_FailedSendChangesNothing ==
    [][(last'.op = "send" /\ CannotBeSent(last'.message)) =>
          /\ last'.result # "ok"
          /\ open_non_general_handles' = open_non_general_handles
          /\ open_general_handles' = open_general_handles]_vars

\* a non-general send found no handle under its your_nonce while handles
\* were open under another key and in the general registry
C39_Witness ==
    /\ last.op = "send"
    /\ last.result = "NoOpenHandle"
    /\ last.message.message_type = "certificateResponse"
    /\ open_non_general_handles # EmptyMap
    /\ open_general_handles # EmptyMap

(***************************************************************************)
(* The non-general registry under the operations that add to it and take   *)
(* from it: handshake requests, non-general sends and the certificate      *)
(* deliveries of the handshake path, each send and delivery noted.         *)
(***************************************************************************)
NextRegistry ==
    \/ WellKnownAuth
    \/ SendNonGeneral
    \/ CertificatesReceivedHandshake

SpecRegistry == InitDelivery /\ [][NextRegistry]_vars

\* C40: the non-general registry maps no key to an empty list: whenever a
\* send or _cleanup_certificate_handles removes the last handle of a key,
\* the key itself is removed; a successful non-general send removes exactly
\* one handle, the oldest of its key, and leaves the handles of all other
\* keys and the general registry unchanged.
C40_NoEmptyHandleList ==
    [][/\ \A k \in DOMAIN open_non_general_handles' :
              open_non_general_handles'[k] # << >>
       /\ (last'.op = "send" /\ last'.result = "ok") =>
              LET k == last'.message.your_nonce
              IN  /\ k \in DOMAIN open_non_general_handles
                  /\ IF Tail(open_non_general_handles[k]) = << >>
                     THEN k \notin DOMAIN open_non_general_handles'
                     ELSE /\ k \in DOMAIN open_non_general_handles'
                          /\ open_non_general_handles'[k] =
                                Tail(open_non_general_handles[k])
                  /\ \A j \in DOMAIN open_non_general_handles \ {k} :
                        /\ j \in DOMAIN open_non_general_handles'
                        /\ open_non_general_handles'[j] = open_non_general_handles[j]
                  /\ DOMAIN open_non_general_handles' \subseteq
                        DOMAIN open_non_general_handles
                  /\ open_general_handles' = open_general_handles]_vars

\* a send has taken the only handle of its key and the key is gone, while
\* another key still has a handle
C40_Witness ==
    /\ last.op = "send" /\ last.result = "ok"
    /\ last.message.your_nonce \notin DOMAIN open_non_general_handles
    /\ open_non_general_handles # EmptyMap

====
